---- MODULE Spec2Model ----
(***************************************************************************)
(* GraphRAG web platform: the document registry (FileService), the         *)
(* per-document indexing progress files, the background indexing pipeline  *)
(* (GraphRAGService._run_indexing_pipeline) and the boundary endpoints     *)
(* that start, cancel, retry and re-run indexing.                          *)
(*                                                                         *)
(* Granularity.  The event loop is single threaded: a coroutine runs       *)
(* until it awaits something that really suspends.  One action of the      *)
(* model is one stretch of code between two such suspensions, cut further  *)
(* at every _update_progress so that each persisted progress record is a   *)
(* state.  A read-modify-write of the registry file (update_file_status)   *)
(* is taken as one atomic step in this specification.                      *)
(***************************************************************************)
EXTENDS Integers, Sequences, FiniteSets, TLC

\* ---------------------------------------------------------------- bounds
MaxDocs == 1        \* documents ever uploaded (ids are fresh uuids: 1, 2, ...)
MaxTasks == 2       \* background tasks ever scheduled (all documents together)
MaxLines == 2       \* log lines the monitor reads from one child process
MaxQueryIds == 2    \* length of the id list of a query
MaxQueryDocs == 2   \* document ids of the directories a query is applied to
MaxRegistryDocs == 2
MaxInFlight == 2
MaxContextEntries == 2  \* entries of a context_data dictionary

\* ------------------------------------------------------- program values
None == "None"          \* Optional[str] = None
NoCount == -1           \* Optional[int] = None (chunks_count, entities_count, ...)
NoTime == 0             \* Optional[datetime] = None; a set time is the run number
Absent == -1            \* an artifact table (parquet file) that does not exist
NoCode == -1            \* the return code of a child process that has not exited

Docs == 1..MaxDocs
UnknownId == 0          \* an id that was never handed out by upload_file

CANCEL_MESSAGE == "Indexing cancelled by user"
NO_ARTIFACTS_MESSAGE == "Indexing completed but no artifacts found"
FILE_NOT_FOUND_MESSAGE == "File not found"

\* stderr texts a failing child process may leave ("" is an empty stderr)
StderrTexts == {"", "boom"}

\* a log line is the set of the keywords it contains
LogLines == SUBSET {"entity", "relationship", "community"}

\* output_dir/<id>: root says whether the directory exists, exists whether its
\* output/artifacts directory does, and the tables are the row counts of the
\* parquet files there, Absent for a missing file.
\* contents the child process may leave:
ArtifactSamples ==
    { [root |-> TRUE, exists |-> TRUE, entities |-> 2, relationships |-> 1, communities |-> Absent,
       text_units |-> 3, community_reports |-> 1] }
NoArtifacts == [root |-> FALSE, exists |-> FALSE, entities |-> Absent, relationships |-> Absent,
                communities |-> Absent, text_units |-> Absent, community_reports |-> Absent]

\* directories a query may find: none, the one above, one without an entities
\* table, one with other row counts
QueryDirSamples ==
    ArtifactSamples \cup
    { NoArtifacts,
      [root |-> TRUE, exists |-> TRUE, entities |-> Absent, relationships |-> 1, communities |-> 1,
       text_units |-> 1, community_reports |-> Absent],
      [root |-> TRUE, exists |-> TRUE, entities |-> 1, relationships |-> Absent, communities |-> 2,
       text_units |-> Absent, community_reports |-> Absent] }

NO_INDEXED_DATA == "No indexed data found for the specified files."
NO_COMMUNITY_DATA == "No community data found for global search."

\* what the search engine (LLM) may do with a query: answer, or raise
EngineOutcomes ==
    { [raised |-> FALSE, response |-> "answer", sources |-> <<"source">>],
      [raised |-> TRUE, response |-> "engine error", sources |-> <<>>] }

VARIABLES
    files,          \* the registry file files.json: document id -> FileMetadata
    progressStore,  \* the status files indexing_status_<id>.json: id -> IndexingProgress
    artifacts,      \* <output_dir>/<id>/output/artifacts of every id
    tasks,          \* every background task scheduled so far, by run number
    pending,        \* cancel/retry calls that passed their status gate and have not written yet
                    \* (at most one per endpoint and document)
    nextId,         \* the next fresh document id
    ended,          \* the pipeline run the latest step ended, if any, with its locals
    response,       \* the response the latest step sent to a cancel/retry call, if any
    result          \* what the latest step returned to a query, if it was one

vars == <<files, progressStore, artifacts, tasks, pending, nextId, ended, response, result>>

\* ------------------------------------------------------------- records
\* FileMetadata as upload_file creates it
NewFileMetadata ==
    [status |-> "uploaded", error_message |-> None,
     chunks_count |-> NoCount, entities_count |-> NoCount,
     relationships_count |-> NoCount, communities_count |-> NoCount,
     output_path |-> None]

\* the record created without its start time
NewProgress_no_started_at(file_id, run) ==
    [file_id |-> file_id, status |-> "indexing", current_step |-> "preparing",
     progress_percentage |-> 0, error_message |-> None,
     started_at |-> NoTime, completed_at |-> NoTime]

\* IndexingProgress as start_indexing creates it for run number run
NewProgress(file_id, run) ==
    [file_id |-> file_id, status |-> "indexing", current_step |-> "preparing",
     progress_percentage |-> 0, error_message |-> None,
     started_at |-> run, completed_at |-> NoTime]

NoStats == [chunks_count |-> 0, entities_count |-> 0,
            relationships_count |-> 0, communities_count |-> 0]

\* a task slot: first _start_indexing_background (pc "background"), then the
\* pipeline coroutine of start_indexing
NewTask(file_id, pc, run) ==
    [file_id |-> file_id, pc |-> pc, progress |-> NewProgress(file_id, run),
     current_step |-> "chunking", lines |-> 0, stream_open |-> TRUE,
     return_code |-> NoCode, stderr |-> "",
     exc |-> None, stats |-> NoStats, seen |-> NoArtifacts]

\* a finished coroutine: its locals are gone
Finished(task) == NewTask(task.file_id, "done", NoTime)

PipelinePcs == {"created", "config", "copy", "monitor", "mark_completed", "except"}

\* ------------------------------------------------------- FileService
\* update_file_status(file_id, status, **kwargs) on the registry content fs
update_file_status(fs, file_id, status, kwargs) ==
    IF file_id \notin DOMAIN fs THEN fs
    ELSE [fs EXCEPT ![file_id] =
            [k \in DOMAIN @ |->
                IF k = "status" THEN status
                ELSE IF k \in DOMAIN kwargs THEN kwargs[k] ELSE @[k]]]

\* _save_metadata: add one record to the registry
save_metadata(fs, file_id, meta) ==
    [d \in DOMAIN fs \cup {file_id} |-> IF d = file_id THEN meta ELSE fs[d]]

\* delete_file: the registry without file_id
delete_metadata(fs, file_id) == [d \in DOMAIN fs \ {file_id} |-> fs[d]]

\* ---------------------------------------------------- progress tracker
\* _save_progress: full overwrite of the status file of progress.file_id
save_progress(store, progress) ==
    [d \in DOMAIN store \cup {progress.file_id} |->
        IF d = progress.file_id THEN progress ELSE store[d]]

\* _update_progress: the in-memory record after the two assignments
update_progress(progress, step, percentage) ==
    [progress EXCEPT !.current_step = step, !.progress_percentage = percentage]

\* GraphRAGService.get_indexing_status: the record of the status file, None
\* when there is no file
NoProgress == [file_id |-> UnknownId, status |-> None, current_step |-> None,
               progress_percentage |-> 0, error_message |-> None,
               started_at |-> NoTime, completed_at |-> NoTime]
\* a status file whose content json.load or IndexingProgress(**data) rejects
Corrupt == [corrupt |-> TRUE]
\* the read without the try/except of lines 93-98
get_indexing_status_unguarded(store, file_id) ==
    IF file_id \in DOMAIN store THEN store[file_id] ELSE NoProgress
get_indexing_status(store, file_id) ==
    IF file_id \in DOMAIN store /\ store[file_id] # Corrupt THEN store[file_id]
    ELSE NoProgress

\* the time the status endpoint puts in a synthetic completed record
SyntheticTime == 1
Synthetic(file_id, status, step, percentage, message, completed_at) ==
    [file_id |-> file_id, status |-> status, current_step |-> step,
     progress_percentage |-> percentage, error_message |-> message,
     started_at |-> NoTime, completed_at |-> completed_at]

\* the synthetic record with a Document in status indexing shown as indexing
synthetic_progress_indexing_shown(file_id, meta) ==
    IF meta.status = "indexing"
    THEN Synthetic(file_id, "indexing", "preparing", 0, None, NoTime)
    ELSE Synthetic(file_id, "unknown", "unknown", 0, None, NoTime)
\* api/indexing.py lines 46-79: the record derived from the Document
synthetic_progress(file_id, meta) ==
    IF meta.status = "uploaded"
    THEN Synthetic(file_id, "uploaded", "waiting", 0, None, NoTime)
    ELSE IF meta.status = "completed"
    THEN Synthetic(file_id, "completed", "finished", 100, None, SyntheticTime)
    ELSE IF meta.status = "error"
    THEN Synthetic(file_id, "error", "failed", 0, meta.error_message, NoTime)
    ELSE Synthetic(file_id, "unknown", "unknown", 0, None, NoTime)

\* GET /api/indexing/status/{file_id}: what the endpoint answers
indexing_status_endpoint(fs, store, file_id) ==
    IF file_id \notin DOMAIN fs THEN [code |-> 404, progress |-> NoProgress]
    ELSE LET progress == get_indexing_status(store, file_id) IN
         [code |-> 200,
          progress |-> IF progress = NoProgress THEN synthetic_progress(file_id, fs[file_id])
                       ELSE progress]

\* ------------------------------------------------------------ monitor
\* the table with another percentage for chunking
step_progress_chunking_25 ==
    [chunking |-> 25, entity_extraction |-> 60,
     relationship_extraction |-> 80, community_detection |-> 90]
\* lines 377-382
step_progress ==
    [chunking |-> 30, entity_extraction |-> 60,
     relationship_extraction |-> 80, community_detection |-> 90]

\* the chain with the tests for entity and relationship exchanged
classify_line_relationship_first(current_step, line) ==
    IF "relationship" \in line THEN "relationship_extraction"
    ELSE IF "entity" \in line THEN "entity_extraction"
    ELSE IF "community" \in line THEN "community_detection"
    ELSE current_step

\* the if/elif chain of _monitor_indexing_process on one line, the line given
\* by the keywords its lower-case text contains
classify_line(current_step, line) ==
    IF "entity" \in line THEN "entity_extraction"
    ELSE IF "relationship" \in line THEN "relationship_extraction"
    ELSE IF "community" \in line THEN "community_detection"
    ELSE current_step

\* the message without the text read from stderr
indexing_failed_message_no_stderr(stderr) == "GraphRAG indexing failed: Unknown error"
indexing_failed_message(stderr) ==
    "GraphRAG indexing failed: " \o (IF stderr # "" THEN stderr ELSE "Unknown error")

\* the check of line 287 left out
artifacts_found_unchecked(dir) == TRUE
\* line 287: artifacts_dir.exists()
artifacts_found(dir) == dir.exists

\* ------------------------------------------------------------- stats
RowCount(table) == IF table = Absent THEN 0 ELSE table

\* the counts with the entities and text_units tables mixed up
calculate_indexing_stats_swapped(dir) ==
    [chunks_count |-> RowCount(dir.entities),
     entities_count |-> RowCount(dir.text_units),
     relationships_count |-> RowCount(dir.relationships),
     communities_count |-> RowCount(dir.communities)]

\* _calculate_indexing_stats over an artifact directory
calculate_indexing_stats(dir) ==
    [chunks_count |-> RowCount(dir.text_units),
     entities_count |-> RowCount(dir.entities),
     relationships_count |-> RowCount(dir.relationships),
     communities_count |-> RowCount(dir.communities)]

\* ------------------------------------------------------ boundary gates
cancel_allowed(status) == status = "indexing"
\* the gate of retry written as "anything that is not running"
retry_allowed_not_indexing(status) == status # "indexing"
retry_allowed(status) == status \in {"error", "cancelled"}

Response(op, file_id, code) == [op |-> op, file_id |-> file_id, code |-> code]
NoResponse == Response("none", UnknownId, 0)

\* how a pipeline coroutine ended: "done" through its finally clause,
\* "crashed" with an exception nothing caught
RunEnd(kind, t, task) ==
    [kind |-> kind, run |-> t, file_id |-> task.file_id,
     return_code |-> task.return_code, stderr |-> task.stderr,
     exc |-> task.exc, seen |-> task.seen]
NoRun == RunEnd("none", 0, NewTask(UnknownId, "done", NoTime))

\* no query answered by the latest step
NoResult == [op |-> "none"]

Init ==
    /\ files = <<>>
    /\ progressStore = <<>>
    /\ artifacts = [d \in Docs |-> NoArtifacts]
    /\ tasks = <<>>
    /\ pending = {}
    /\ nextId = 1
    /\ ended = NoRun
    /\ response = NoResponse
    /\ result = NoResult


SetTask(t, rec) == [tasks EXCEPT ![t] = rec]

\* ------------------------------------------------------------ upload
\* POST /api/files/upload: FileService.upload_file, then the background task
upload_file ==
    /\ nextId <= MaxDocs
    /\ Len(tasks) < MaxTasks
    /\ files' = save_metadata(files, nextId, NewFileMetadata)
    /\ tasks' = Append(tasks, NewTask(nextId, "background", Len(tasks) + 1))
    /\ nextId' = nextId + 1
    /\ response' = NoResponse
    /\ ended' = NoRun
    /\ result' = NoResult
    /\ UNCHANGED <<progressStore, artifacts, pending>>

\* _start_indexing_background: status indexing, then start_indexing, which
\* creates the progress object and schedules the pipeline coroutine
start_indexing_background(t) ==
    /\ tasks[t].pc = "background"
    /\ LET id == tasks[t].file_id IN
       IF id \in DOMAIN files
       THEN /\ files' = update_file_status(files, id, "indexing", <<>>)
            /\ tasks' = SetTask(t, NewTask(id, "created", t))
       ELSE /\ files' = update_file_status(files, id, "error",
                            [error_message |-> FILE_NOT_FOUND_MESSAGE])
            /\ tasks' = SetTask(t, [tasks[t] EXCEPT !.pc = "bg_failed"])
    /\ response' = NoResponse
    /\ ended' = NoRun
    /\ result' = NoResult
    /\ UNCHANGED <<progressStore, artifacts, pending, nextId>>

\* ---------------------------------------------------------- pipeline
\* one _update_progress of task t, and the move to pc next
StepTo(t, step, percentage, next) ==
    LET p == update_progress(tasks[t].progress, step, percentage) IN
    /\ progressStore' = save_progress(progressStore, p)
    /\ tasks' = SetTask(t, [tasks[t] EXCEPT !.progress = p, !.pc = next])

\* an exception raised at a point of the pipeline's try block
Raise(t, message) == SetTask(t, [tasks[t] EXCEPT !.exc = message, !.pc = "except"])

NO_SUCH_DIRECTORY == "No such file or directory"
SOURCE_FILE_NOT_FOUND == "File not found: file_path"

\* lines 238-243: mkdir of output_dir/<id> (parents, exist_ok), then "preparing"
PipelinePrepare(t) ==
    /\ tasks[t].pc = "created"
    /\ artifacts' = [artifacts EXCEPT ![tasks[t].file_id].root = TRUE]
    /\ StepTo(t, "preparing", 5, "config")
    /\ response' = NoResponse
    /\ ended' = NoRun
    /\ result' = NoResult
    /\ UNCHANGED <<files, pending, nextId>>

\* lines 245-248: the config file is written into output_dir/<id> (open raises
\* when a delete_file removed the directory), then "copying_file"
PipelineCopy(t) ==
    /\ tasks[t].pc = "config"
    /\ IF artifacts[tasks[t].file_id].root
       THEN StepTo(t, "copying_file", 10, "copy")
       ELSE tasks' = Raise(t, NO_SUCH_DIRECTORY) /\ UNCHANGED progressStore
    /\ response' = NoResponse
    /\ ended' = NoRun
    /\ result' = NoResult
    /\ UNCHANGED <<files, artifacts, pending, nextId>>

\* lines 250-278: the input directory (mkdir without parents raises when
\* output_dir/<id> is gone), the text of the uploaded file (extract_text_content
\* raises when delete_file unlinked it), then "chunking" and the child process
PipelineChunk(t) ==
    /\ tasks[t].pc = "copy"
    /\ IF ~artifacts[tasks[t].file_id].root
       THEN tasks' = Raise(t, NO_SUCH_DIRECTORY) /\ UNCHANGED progressStore
       ELSE IF tasks[t].file_id \notin DOMAIN files
       THEN tasks' = Raise(t, SOURCE_FILE_NOT_FOUND) /\ UNCHANGED progressStore
       ELSE StepTo(t, "chunking", 20, "monitor")
    /\ response' = NoResponse
    /\ ended' = NoRun
    /\ result' = NoResult
    /\ UNCHANGED <<files, artifacts, pending, nextId>>

\* one iteration of the monitor loop that reads a line
MonitorLine(t) ==
    /\ tasks[t].pc = "monitor"
    /\ tasks[t].stream_open
    /\ tasks[t].lines < MaxLines
    /\ \E line \in LogLines :
         LET step == classify_line(tasks[t].current_step, line)
             p == IF step \in DOMAIN step_progress
                  THEN update_progress(tasks[t].progress, step, step_progress[step])
                  ELSE tasks[t].progress
         IN /\ progressStore' = IF step \in DOMAIN step_progress
                                THEN save_progress(progressStore, p)
                                ELSE progressStore
            /\ tasks' = SetTask(t, [tasks[t] EXCEPT !.progress = p,
                                       !.current_step = step, !.lines = @ + 1])
    /\ response' = NoResponse
    /\ ended' = NoRun
    /\ result' = NoResult
    /\ UNCHANGED <<files, artifacts, pending, nextId>>

\* the child process, while it runs, leaves its tables in the artifact directory
ChildWritesArtifacts(t) ==
    /\ tasks[t].pc = "monitor"
    /\ \E out \in ArtifactSamples :
         /\ artifacts[tasks[t].file_id] # out
         /\ artifacts' = [artifacts EXCEPT ![tasks[t].file_id] = out]
    /\ response' = NoResponse
    /\ ended' = NoRun
    /\ result' = NoResult
    /\ UNCHANGED <<files, progressStore, tasks, pending, nextId>>

\* lines 420-425: the monitor has left its loop, the child's return code is
\* not 0: raise with the stderr text
MonitorFailed(t, stderr) ==
    /\ tasks' = SetTask(t, [tasks[t] EXCEPT
                !.return_code = 1, !.stderr = stderr,
                !.current_step = "chunking", !.lines = 0, !.stream_open = TRUE,
                !.exc = indexing_failed_message(stderr), !.pc = "except"])
    /\ response' = NoResponse
    /\ ended' = NoRun
    /\ result' = NoResult
    /\ UNCHANGED <<files, progressStore, artifacts, pending, nextId>>

\* the child ends with a return code other than 0 and the monitor returns
MonitorExitFailure(t) ==
    /\ tasks[t].pc = "monitor"
    /\ tasks[t].return_code = NoCode
    /\ \E stderr \in StderrTexts : MonitorFailed(t, stderr)

\* the monitor has left its loop, return code 0, then lines 284-293 and 305:
\* "finalizing", the artifact check, the counts
MonitorSucceeded(t) ==
    /\ LET id == tasks[t].file_id
           p == update_progress(tasks[t].progress, "finalizing", 95)
           task == [tasks[t] EXCEPT !.current_step = "chunking", !.lines = 0,
                                    !.stream_open = TRUE, !.return_code = 0]
       IN /\ progressStore' = save_progress(progressStore, p)
          /\ IF artifacts_found(artifacts[id])
             THEN tasks' = SetTask(t, [task EXCEPT
                    !.stats = calculate_indexing_stats(artifacts[id]),
                    !.seen = artifacts[id],
                    !.progress = [p EXCEPT !.status = "completed",
                                           !.progress_percentage = 100,
                                           !.completed_at = t],
                    !.pc = "mark_completed"])
             ELSE tasks' = SetTask(t, [task EXCEPT
                    !.seen = artifacts[id],
                    !.progress = p, !.exc = NO_ARTIFACTS_MESSAGE, !.pc = "except"])
    /\ response' = NoResponse
    /\ ended' = NoRun
    /\ result' = NoResult
    /\ UNCHANGED <<files, artifacts, pending, nextId>>

\* the child ends with return code 0 and the monitor returns
MonitorExitSuccess(t) ==
    /\ tasks[t].pc = "monitor"
    /\ tasks[t].return_code = NoCode
    /\ MonitorSucceeded(t)

\* the child process and the monitor loop step by step
\* the child, or the last process holding its stdout, closes the stream
ChildClosesStream(t) ==
    /\ tasks[t].pc = "monitor"
    /\ tasks[t].stream_open
    /\ tasks' = SetTask(t, [tasks[t] EXCEPT !.stream_open = FALSE])
    /\ response' = NoResponse
    /\ ended' = NoRun
    /\ result' = NoResult
    /\ UNCHANGED <<files, progressStore, artifacts, pending, nextId>>

\* the child exits: process.returncode is set, stderr holds what it wrote
ChildExits(t) ==
    /\ tasks[t].pc = "monitor"
    /\ tasks[t].return_code = NoCode
    /\ \E code \in {0, 1}, stderr \in StderrTexts :
         /\ code = 0 => stderr = ""
         /\ tasks' = SetTask(t, [tasks[t] EXCEPT !.return_code = code, !.stderr = stderr])
    /\ response' = NoResponse
    /\ ended' = NoRun
    /\ result' = NoResult
    /\ UNCHANGED <<files, progressStore, artifacts, pending, nextId>>

\* the loop with the test of line 393 left out: only a timeout ends it
loop_breaks_only_on_timeout(stream_open, return_code) ==
    stream_open /\ return_code # NoCode
\* lines 386-417 when no line is left to read: readline gives b"" at the end
\* of the stream (break); on an open stream it times out, and the loop ends
\* if process.returncode is set, else goes on
loop_breaks(stream_open, return_code) ==
    IF ~stream_open THEN TRUE ELSE return_code # NoCode

\* line 420: after the loop, process.wait() returns once the child has exited
monitor_returns(stream_open, return_code) ==
    loop_breaks(stream_open, return_code) /\ return_code # NoCode

\* _monitor_indexing_process returns or raises
MonitorReturn(t) ==
    /\ tasks[t].pc = "monitor"
    /\ monitor_returns(tasks[t].stream_open, tasks[t].return_code)
    /\ IF tasks[t].return_code = 0
       THEN MonitorSucceeded(t)
       ELSE MonitorFailed(t, tasks[t].stderr)

\* the keyword arguments of the "completed" update
completed_kwargs(file_id, stats) ==
    [output_path |-> "output_dir", chunks_count |-> stats.chunks_count,
     entities_count |-> stats.entities_count,
     relationships_count |-> stats.relationships_count,
     communities_count |-> stats.communities_count]

\* lines 296-303 and the finally clause
PipelineMarkCompleted(t) ==
    /\ tasks[t].pc = "mark_completed"
    /\ files' = update_file_status(files, tasks[t].file_id, "completed",
                    completed_kwargs(tasks[t].file_id, tasks[t].stats))
    /\ progressStore' = save_progress(progressStore, tasks[t].progress)
    /\ tasks' = SetTask(t, Finished(tasks[t]))
    /\ ended' = RunEnd("done", t, tasks[t])
    /\ result' = NoResult
    /\ response' = NoResponse
    /\ UNCHANGED <<artifacts, pending, nextId>>

\* the in-memory record after the two assignments of the except clause
error_progress(progress, message) ==
    [progress EXCEPT !.status = "error", !.error_message = message]

\* lines 307-321: the except clause and the finally clause
PipelineExcept(t) ==
    /\ tasks[t].pc = "except"
    /\ LET p == error_progress(tasks[t].progress, tasks[t].exc) IN
       /\ files' = update_file_status(files, tasks[t].file_id, "error",
                        [error_message |-> tasks[t].exc])
       /\ progressStore' = save_progress(progressStore, p)
    /\ tasks' = SetTask(t, Finished(tasks[t]))
    /\ ended' = RunEnd("done", t, tasks[t])
    /\ result' = NoResult
    /\ response' = NoResponse
    /\ UNCHANGED <<artifacts, pending, nextId>>

\* ------------------------------------------------- boundary endpoints
Call(op, file_id) == [op |-> op, file_id |-> file_id]

\* DELETE /api/indexing/cancel/{file_id}, lines 158-168: the lookup and the gate
cancel_indexing(file_id) ==
    /\ IF file_id \notin DOMAIN files
       THEN response' = Response("cancel", file_id, 404) /\ UNCHANGED pending
       ELSE IF ~cancel_allowed(files[file_id].status)
       THEN response' = Response("cancel", file_id, 400) /\ UNCHANGED pending
       ELSE /\ Call("cancel", file_id) \notin pending
            /\ pending' = pending \cup {Call("cancel", file_id)}
            /\ response' = NoResponse
    /\ ended' = NoRun
    /\ result' = NoResult
    /\ UNCHANGED <<files, progressStore, artifacts, tasks, nextId>>

\* lines 170-185: the write of an admitted cancel
cancel_indexing_write(call) ==
    /\ call \in pending
    /\ call.op = "cancel"
    /\ files' = update_file_status(files, call.file_id, "cancelled",
                    [error_message |-> CANCEL_MESSAGE])
    /\ pending' = pending \ {call}
    /\ response' = Response("cancel", call.file_id, 200)
    /\ ended' = NoRun
    /\ result' = NoResult
    /\ UNCHANGED <<progressStore, artifacts, tasks, nextId>>

\* POST /api/indexing/retry/{file_id}, lines 204-214: the lookup and the gate
retry_indexing(file_id) ==
    /\ IF file_id \notin DOMAIN files
       THEN response' = Response("retry", file_id, 404) /\ UNCHANGED pending
       ELSE IF ~retry_allowed(files[file_id].status)
       THEN response' = Response("retry", file_id, 400) /\ UNCHANGED pending
       ELSE /\ Call("retry", file_id) \notin pending
            /\ Len(tasks) < MaxTasks
            /\ pending' = pending \cup {Call("retry", file_id)}
            /\ response' = NoResponse
    /\ ended' = NoRun
    /\ result' = NoResult
    /\ UNCHANGED <<files, progressStore, artifacts, tasks, nextId>>

\* the reset without the error_message keyword
retry_reset_kwargs_keep_message == <<>>
\* lines 218-222: the keyword arguments of the reset to "indexing"
retry_reset_kwargs == [error_message |-> None]

\* lines 216-232: the write of an admitted retry, and start_indexing
retry_indexing_write(call) ==
    /\ call \in pending
    /\ call.op = "retry"
    /\ Len(tasks) < MaxTasks
    /\ files' = update_file_status(files, call.file_id, "indexing", retry_reset_kwargs)
    /\ tasks' = Append(tasks, NewTask(call.file_id, "created", Len(tasks) + 1))
    /\ pending' = pending \ {call}
    /\ response' = Response("retry", call.file_id, 200)
    /\ ended' = NoRun
    /\ result' = NoResult
    /\ UNCHANGED <<progressStore, artifacts, nextId>>

\* POST /api/files/{file_id}/reindex: no gate on the status
reindex_file(file_id) ==
    /\ file_id \in DOMAIN files
    /\ Len(tasks) < MaxTasks
    /\ files' = update_file_status(files, file_id, "indexing",
                    [error_message |-> None])
    /\ tasks' = Append(tasks, NewTask(file_id, "background", Len(tasks) + 1))
    /\ response' = NoResponse
    /\ ended' = NoRun
    /\ result' = NoResult
    /\ UNCHANGED <<progressStore, artifacts, pending, nextId>>

\* DELETE /api/files/{file_id}: FileService.delete_file
delete_file(file_id) ==
    /\ file_id \in DOMAIN files
    /\ artifacts' = [artifacts EXCEPT ![file_id] = NoArtifacts]
    /\ files' = delete_metadata(files, file_id)
    /\ response' = NoResponse
    /\ ended' = NoRun
    /\ result' = NoResult
    /\ UNCHANGED <<progressStore, tasks, pending, nextId>>

Tasks == 1..Len(tasks)

\* a call that passed its gate
Admitted(call) == call \in pending' \ pending

\* ----------------------------------------------------------- queries
\* the rows of a table (a parquet file), in row order
Rows(table) == IF table = Absent THEN <<>> ELSE [i \in 1..table |-> i]

\* lines 160-161, 478-479, 545-546: the directory of file_id exists
dir_exists(dirs, file_id) == file_id \in DOMAIN dirs /\ dirs[file_id].exists

\* the loop with break in place of continue: it ends at the first missing directory
RECURSIVE load_rows_until_missing(_, _, _)
load_rows_until_missing(dirs, file_ids, kind) ==
    IF file_ids = <<>> \/ ~dir_exists(dirs, Head(file_ids)) THEN <<>>
    ELSE LET file_id == Head(file_ids)
             rows == Rows(dirs[file_id][kind])
         IN [i \in 1..Len(rows) |-> [id |-> rows[i], file_id |-> file_id]]
            \o load_rows_until_missing(dirs, Tail(file_ids), kind)

\* the loop with a row skipped when its id was already loaded
RECURSIVE load_rows_distinct_ids(_, _, _)
load_rows_distinct_ids(dirs, file_ids, kind) ==
    IF file_ids = <<>> THEN <<>>
    ELSE LET file_id == file_ids[Len(file_ids)]
             before == load_rows_distinct_ids(dirs, SubSeq(file_ids, 1, Len(file_ids) - 1), kind)
             rows == IF dir_exists(dirs, file_id) THEN Rows(dirs[file_id][kind]) ELSE <<>>
             fresh == SelectSeq(rows, LAMBDA r : \A i \in 1..Len(before) : before[i].id # r)
         IN before \o [i \in 1..Len(fresh) |-> [id |-> fresh[i], file_id |-> file_id]]

\* the loop of get_graph_data for one kind of table: the rows of every id of
\* file_ids whose directory exists, in the order of file_ids
RECURSIVE load_rows(_, _, _)
load_rows(dirs, file_ids, kind) ==
    IF file_ids = <<>> THEN <<>>
    ELSE LET file_id == Head(file_ids)
             rows == IF dir_exists(dirs, file_id) THEN Rows(dirs[file_id][kind]) ELSE <<>>
         IN [i \in 1..Len(rows) |-> [id |-> rows[i], file_id |-> file_id]]
            \o load_rows(dirs, Tail(file_ids), kind)

\* the rows without the document they were read from (only TextChunk keeps it)
RowIds(rows) == [i \in 1..Len(rows) |-> rows[i].id]

\* GraphRAGService.get_graph_data over the directories dirs
get_graph_data(dirs, file_ids) ==
    [entities |-> RowIds(load_rows(dirs, file_ids, "entities")),
     relationships |-> RowIds(load_rows(dirs, file_ids, "relationships")),
     communities |-> RowIds(load_rows(dirs, file_ids, "communities")),
     chunks |-> load_rows(dirs, file_ids, "text_units")]

\* output_dir/<id>/artifacts, the directory get_graph_data reads: the pipeline
\* creates output_dir/<id> and its input directory, the child process writes
\* below output_dir/<id>/output, nothing creates this one
graph_data_dirs == [d \in Docs |-> NoArtifacts]

\* the ids of file_ids whose directory holds the table kind: one data frame each
RECURSIVE load_tables(_, _, _)
load_tables(dirs, file_ids, kind) ==
    IF file_ids = <<>> THEN <<>>
    ELSE LET file_id == Head(file_ids)
             found == dir_exists(dirs, file_id) /\ dirs[file_id][kind] # Absent
         IN (IF found THEN <<file_id>> ELSE <<>>) \o load_tables(dirs, Tail(file_ids), kind)

\* what a search hands back: search names the function that ran
SearchResult(search, engine, outcome) ==
    [search |-> search, engine |-> engine, raised |-> outcome.raised,
     response |-> outcome.response, sources |-> outcome.sources]
FixedResult(search, text) ==
    SearchResult(search, <<>>, [raised |-> FALSE, response |-> text, sources |-> <<>>])

\* the search without the test of line 499
local_search_unchecked(dirs, file_ids, outcome) ==
    SearchResult("local", load_tables(dirs, file_ids, "entities"), outcome)
\* _local_search: engine is the list of entity tables handed to the engine
local_search(dirs, file_ids, outcome) ==
    LET all_entities == load_tables(dirs, file_ids, "entities") IN
    IF all_entities = <<>> THEN FixedResult("local", NO_INDEXED_DATA)
    ELSE SearchResult("local", all_entities, outcome)

\* the search reading the communities table in place of the community reports
global_search_communities_table(dirs, file_ids, outcome) ==
    LET all_communities == load_tables(dirs, file_ids, "communities") IN
    IF all_communities = <<>> THEN FixedResult("global", NO_COMMUNITY_DATA)
    ELSE SearchResult("global", all_communities, outcome)
\* _global_search: engine is the list of community report tables
global_search(dirs, file_ids, outcome) ==
    LET all_communities == load_tables(dirs, file_ids, "community_reports") IN
    IF all_communities = <<>> THEN FixedResult("global", NO_COMMUNITY_DATA)
    ELSE SearchResult("global", all_communities, outcome)

\* query_graph returning the exception's text as its response
query_graph_swallows(mode, dirs, file_ids, outcome) ==
    LET found == IF mode = "local" THEN local_search(dirs, file_ids, outcome)
                 ELSE global_search(dirs, file_ids, outcome)
    IN [kind |-> "returned", response |-> found.response, sources |-> found.sources,
        mode |-> mode, search |-> found.search, engine |-> found.engine]
\* query_graph: the result it returns, or the exception it raises
query_graph(mode, dirs, file_ids, outcome) ==
    LET found == IF mode = "local" THEN local_search(dirs, file_ids, outcome)
                 ELSE global_search(dirs, file_ids, outcome)
    IN IF found.raised
       THEN [kind |-> "raised", message |-> "Error querying graph: " \o found.response,
             search |-> found.search, engine |-> found.engine]
       ELSE [kind |-> "returned", response |-> found.response, sources |-> found.sources,
             mode |-> mode, search |-> found.search, engine |-> found.engine]

ChatModes == {"local", "global"}

\* ---------------------------------------------------------------- chat
\* the validation loop without the test of the status
valid_file_ids_any_status(fs, file_ids) ==
    SelectSeq(file_ids, LAMBDA id : id \in DOMAIN fs)
\* chat.py lines 58-62 and 133-137: the requested ids that are registered and completed
valid_file_ids(fs, file_ids) ==
    SelectSeq(file_ids, LAMBDA id : id \in DOMAIN fs /\ fs[id].status = "completed")

NoSearch == [kind |-> "none"]

\* the validation handing the completed ids to query_graph in both modes
chat_validation_passes_ids(fs, mode, file_ids) ==
    LET valid == valid_file_ids(fs, file_ids) IN
    IF mode = "local" /\ valid = <<>> THEN [code |-> 400, passed |-> <<>>]
    ELSE [code |-> 200, passed |-> valid]
\* the validation of chat_query and chat_stream (lines 51-68, 126-143): the
\* HTTP code and, when it is 200, the id list handed to query_graph
chat_validation(fs, mode, file_ids) ==
    LET valid == valid_file_ids(fs, file_ids) IN
    IF mode = "local" /\ file_ids = <<>> THEN [code |-> 400, passed |-> <<>>]
    ELSE IF mode = "local" /\ valid = <<>> THEN [code |-> 400, passed |-> <<>>]
    ELSE [code |-> 200, passed |-> IF mode = "local" THEN valid ELSE <<>>]

\* POST /api/chat/query: the answer, search being what query_graph did
chat_query(fs, dirs, mode, file_ids, outcome) ==
    LET checked == chat_validation(fs, mode, file_ids) IN
    IF checked.code # 200 THEN [code |-> checked.code, passed |-> <<>>, search |-> NoSearch]
    ELSE LET search == query_graph(mode, dirs, checked.passed, outcome) IN
         [code |-> IF search.kind = "raised" THEN 500 ELSE 200,
          passed |-> checked.passed, search |-> search]

\* POST /api/chat/stream: a rejected request, or the stream whose generator
\* calls query_graph (an exception of the search goes into the stream)
chat_stream(fs, dirs, mode, file_ids, outcome) ==
    LET checked == chat_validation(fs, mode, file_ids) IN
    IF checked.code # 200 THEN [code |-> checked.code, passed |-> <<>>, search |-> NoSearch]
    ELSE [code |-> 200, passed |-> checked.passed,
          search |-> query_graph(mode, dirs, checked.passed, outcome)]

\* ------------------------------------------------------ the chat stream
CHUNK_SIZE == 50
\* a text of n characters, told apart by their position
Text(n) == [i \in 1..n |-> i % 7]
\* the numbers of characters of the two fixed responses
NO_INDEXED_DATA_LENGTH == 46
NO_COMMUNITY_DATA_LENGTH == 42
\* answers of the engine: empty, shorter than a chunk, one chunk, one character
\* more, several chunks
StreamTexts == { Text(0), Text(1), Text(CHUNK_SIZE), Text(CHUNK_SIZE + 1), Text(2 * CHUNK_SIZE + 20) }

\* the characters of result.response, answer being those of the engine's answer
response_text(search, answer) ==
    IF search.response = NO_INDEXED_DATA THEN Text(NO_INDEXED_DATA_LENGTH)
    ELSE IF search.response = NO_COMMUNITY_DATA THEN Text(NO_COMMUNITY_DATA_LENGTH)
    ELSE answer

ChatStreamChunk(content, is_final, sources, error) ==
    [chunk_id |-> "chunk_id", content |-> content, is_final |-> is_final,
     sources |-> sources, error |-> error]

\* lines 190-202: one ChatSource per source of the result, all of them under
\* the first valid id
chat_sources(sources, valid) ==
    [i \in 1..Len(sources) |->
        [file_id |-> IF valid # <<>> THEN valid[1] ELSE UnknownId, source |-> sources[i]]]

\* the slices without the last, shorter one
slices_without_remainder(text) ==
    [k \in 1..(Len(text) \div CHUNK_SIZE) |->
        SubSeq(text, (k - 1) * CHUNK_SIZE + 1, k * CHUNK_SIZE)]
\* lines 170-171: response_text[i:i+chunk_size] for i in range(0, len, chunk_size)
slices(text) ==
    [k \in 1..((Len(text) + CHUNK_SIZE - 1) \div CHUNK_SIZE) |->
        SubSeq(text, (k - 1) * CHUNK_SIZE + 1,
               IF k * CHUNK_SIZE < Len(text) THEN k * CHUNK_SIZE ELSE Len(text))]

\* generate_stream: the chunks it yields, search being what query_graph did
generate_stream(search, text, valid) ==
    LET initial == ChatStreamChunk(<<>>, FALSE, <<>>, None) IN
    IF search.kind = "raised"
    THEN <<initial, ChatStreamChunk(<<>>, TRUE, <<>>, search.message)>>
    ELSE LET parts == slices(text) IN
         <<initial>>
         \o [k \in 1..Len(parts) |-> ChatStreamChunk(parts[k], FALSE, <<>>, None)]
         \o <<ChatStreamChunk(<<>>, TRUE, chat_sources(search.sources, valid), None)>>

\* registries and directories a chat request may meet
ChatRegistries ==
    { fs \in UNION { [D -> { [NewFileMetadata EXCEPT !.status = st] :
                              st \in {"completed", "indexing"} }] : D \in SUBSET (1..MaxQueryDocs) } :
        TRUE }
ChatDirs == [1..MaxQueryDocs -> ArtifactSamples \cup {NoArtifacts}]

\* a chat request on one of the two endpoints
ChatRequest(endpoint, fs, dirs, mode, file_ids) ==
    /\ \E outcome \in EngineOutcomes :
       \E answer \in (IF endpoint = "chat_stream" /\ ~outcome.raised THEN StreamTexts ELSE {<<>>}) :
         LET out == IF endpoint = "chat_query"
                    THEN chat_query(fs, dirs, mode, file_ids, outcome)
                    ELSE chat_stream(fs, dirs, mode, file_ids, outcome)
             streamed == endpoint = "chat_stream" /\ out.code = 200
             text == IF streamed /\ out.search.kind = "returned"
                     THEN response_text(out.search, answer) ELSE <<>>
         IN result' = [op |-> endpoint, fs |-> fs, dirs |-> dirs, mode |-> mode,
                       file_ids |-> file_ids, outcome |-> outcome, out |-> out,
                       text |-> text,
                       chunks |-> IF streamed THEN generate_stream(out.search, text, out.passed)
                                  ELSE <<>>]
    /\ response' = NoResponse
    /\ ended' = NoRun
    /\ UNCHANGED <<files, progressStore, artifacts, tasks, pending, nextId>>

\* -------------------------------------------------- the status file
\* JSON values: null, a number, a string; str(datetime) is a string
JsonNull == [json |-> "null"]
JsonNumber(n) == [json |-> "number", value |-> n]
JsonString(str) == [json |-> "string", value |-> str]
DatetimeText(time) == [text |-> "YYYY-MM-DD HH:MM:SS.ffffff", of |-> time]

\* json.dump(progress.dict(), default=str): every field is written, None as
\* null, a datetime through str()
json_dump(progress) ==
    [file_id |-> JsonString(progress.file_id),
     status |-> JsonString(progress.status),
     current_step |-> JsonString(progress.current_step),
     progress_percentage |-> JsonNumber(progress.progress_percentage),
     error_message |-> IF progress.error_message = None THEN JsonNull
                       ELSE JsonString(progress.error_message),
     started_at |-> IF progress.started_at = NoTime THEN JsonNull
                    ELSE JsonString(DatetimeText(progress.started_at)),
     completed_at |-> IF progress.completed_at = NoTime THEN JsonNull
                      ELSE JsonString(DatetimeText(progress.completed_at))]

\* IndexingProgress(**json.load(f)): null is None, a datetime field parses its text
json_load(data) ==
    [file_id |-> data.file_id.value,
     status |-> data.status.value,
     current_step |-> data.current_step.value,
     progress_percentage |-> data.progress_percentage.value,
     error_message |-> IF data.error_message = JsonNull THEN None
                       ELSE data.error_message.value,
     started_at |-> IF data.started_at = JsonNull THEN NoTime
                    ELSE data.started_at.value.of,
     completed_at |-> IF data.completed_at = JsonNull THEN NoTime
                      ELSE data.completed_at.value.of]

NoFile == [json |-> "no file"]

\* a write that leaves out the None fields and keeps what the file had for them
write_status_file_patch(file, progress) ==
    LET new == json_dump(progress) IN
    IF file = NoFile THEN new
    ELSE [k \in DOMAIN new |-> IF new[k] = JsonNull THEN file[k] ELSE new[k]]
\* _save_progress on the status file of progress.file_id: open(.., 'w') and dump
write_status_file(file, progress) == json_dump(progress)

\* get_indexing_status on that file
read_status_file(file) == IF file = NoFile THEN NoProgress ELSE json_load(file)

\* progress records of document 1 to write
ProgressSamples ==
    { [file_id |-> 1, status |-> st, current_step |-> step, progress_percentage |-> pct,
       error_message |-> msg, started_at |-> started, completed_at |-> completed] :
         st \in {"indexing", "error", "completed"}, step \in {"preparing", "finalizing"},
         pct \in {5, 100}, msg \in {None, "boom"}, started \in {1, 2},
         completed \in {NoTime, 3} }

\* _save_progress of previous (if any), _save_progress of written, then
\* get_indexing_status
SaveThenRead(previous, written) ==
    /\ LET first == IF previous = NoProgress THEN NoFile
                     ELSE write_status_file(NoFile, previous)
       IN result' = [op |-> "save_then_read", previous |-> previous, written |-> written,
                     out |-> read_status_file(write_status_file(first, written))]
    /\ response' = NoResponse
    /\ ended' = NoRun
    /\ UNCHANGED <<files, progressStore, artifacts, tasks, pending, nextId>>

\* ------------------------------------------------------------ sources
\* a string is the sequence of its characters
Chars(n, c) == [i \in 1..n |-> c]
PREVIEW_LENGTH == 200
ELLIPSIS == <<".", ".", ".">>
SOURCE == <<"s", "o", "u", "r", "c", "e">>
CHUNK == <<"c", "h", "u", "n", "k">>

\* keys and values of the context_data dictionaries
ContextKeys ==
    { <<"S", "o", "u", "r", "c", "e", "s">>, <<"C", "H", "U", "N", "K">>,
      <<"s", "o", "u", "r", "c", "h", "u", "n">>, <<"r", "e", "p", "o", "r", "t", "s">> }
ContextValues ==
    { Chars(3, "a"), Chars(PREVIEW_LENGTH, "a"),
      Chars(PREVIEW_LENGTH, "a") \o <<"b">>, Chars(PREVIEW_LENGTH, "a") \o Chars(50, "b") }

\* str.lower() on the letters of the keys
UpperCase ==
    [S |-> "s", C |-> "c", H |-> "h", U |-> "u", N |-> "n", K |-> "k", E |-> "e", T |-> "t",
     I |-> "i", Y |-> "y", R |-> "r", L |-> "l", A |-> "a", O |-> "o", P |-> "p", M |-> "m"]
lower(str) ==
    [i \in 1..Len(str) |-> IF str[i] \in DOMAIN UpperCase THEN UpperCase[str[i]] ELSE str[i]]

\* sub in str
contains(str, sub) ==
    \E i \in 0..(Len(str) - Len(sub)) : SubSeq(str, i + 1, i + Len(sub)) = sub

\* the test of line 606 without lower()
is_source_key_case_sensitive(key) == contains(key, SOURCE) \/ contains(key, CHUNK)
\* line 606
is_source_key(key) == contains(lower(key), SOURCE) \/ contains(lower(key), CHUNK)

\* line 609
preview(value) ==
    IF Len(value) > PREVIEW_LENGTH THEN SubSeq(value, 1, PREVIEW_LENGTH) \o ELLIPSIS ELSE value

\* _extract_sources_from_context over the items of a dictionary, in its order
RECURSIVE extract_sources_from_context(_)
extract_sources_from_context(context_data) ==
    IF context_data = <<>> THEN <<>>
    ELSE LET item == Head(context_data)
             rest == extract_sources_from_context(Tail(context_data))
         IN IF is_source_key(item.key)
            THEN <<[type |-> item.key, content |-> preview(item.value)]>> \o rest
            ELSE rest

\* the dictionaries: items with distinct keys
RECURSIVE ContextDicts(_)
ContextDicts(n) ==
    IF n = 0 THEN {<<>>}
    ELSE LET shorter == ContextDicts(n - 1) IN
         shorter \cup
         { Append(d, [key |-> k, value |-> v]) :
             d \in { x \in shorter : Len(x) = n - 1 }, k \in ContextKeys, v \in ContextValues }

DistinctKeys(d) == \A i, j \in 1..Len(d) : i # j => d[i].key # d[j].key

\* a call of _extract_sources_from_context
ExtractSources(context_data) ==
    /\ result' = [op |-> "extract_sources", context_data |-> context_data,
                  out |-> extract_sources_from_context(context_data)]
    /\ response' = NoResponse
    /\ ended' = NoRun
    /\ UNCHANGED <<files, progressStore, artifacts, tasks, pending, nextId>>

\* ------------------------------------------------- the monitor's lines
ENTITY == <<"e", "n", "t", "i", "t", "y">>
RELATIONSHIP == <<"r", "e", "l", "a", "t", "i", "o", "n", "s", "h", "i", "p">>
COMMUNITY == <<"c", "o", "m", "m", "u", "n", "i", "t", "y">>
Keywords == [entity |-> ENTITY, relationship |-> RELATIONSHIP, community |-> COMMUNITY]

\* lines the child process may print, as line.decode().strip() gives them
LineTexts ==
    { <<>>,
      <<"L", "o", "a", "d", "i", "n", "g", " ", "i", "n", "p", "u", "t">>,
      <<"E", "x", "t", "r", "a", "c", "t", "i", "n", "g", " ", "E", "n", "t", "i", "t", "y", " ", "g", "r", "a", "p", "h">>,
      <<"E", "N", "T", "I", "T", "I", "E", "S">>,
      <<"R", "e", "l", "a", "t", "i", "o", "n", "s", "h", "i", "p", " ", "s", "u", "m", "m", "a", "r", "y">>,
      <<"C", "O", "M", "M", "U", "N", "I", "T", "Y", " ", "r", "e", "p", "o", "r", "t", "s">>,
      <<"e", "n", "t", "i", "t", "y", " ", "r", "e", "l", "a", "t", "i", "o", "n", "s", "h", "i", "p">>,
      <<"C", "o", "m", "m", "u", "n", "i", "t", "y", " ", "R", "e", "l", "a", "t", "i", "o", "n", "s", "h", "i", "p">> }

\* lines 399-404: which of the three tests "<keyword>" in line_str.lower() hold
line_keywords(line_str) ==
    { k \in DOMAIN Keywords : contains(lower(line_str), Keywords[k]) }

\* the monitor loop over the lines read before the end of the stream: the
\* records _update_progress saved, one per line
RECURSIVE monitor_saves(_, _, _)
monitor_saves(progress, current_step, lines) ==
    IF lines = <<>> THEN <<>>
    ELSE LET step == classify_line(current_step, line_keywords(Head(lines)))
             p == IF step \in DOMAIN step_progress
                  THEN update_progress(progress, step, step_progress[step])
                  ELSE progress
         IN (IF step \in DOMAIN step_progress THEN <<p>> ELSE <<>>)
            \o monitor_saves(p, step, Tail(lines))

\* _monitor_indexing_process started after the chunking checkpoint, reading lines
MonitorLines(lines) ==
    /\ result' = [op |-> "monitor", lines |-> lines,
                  out |-> monitor_saves(update_progress(NewProgress(1, 1), "chunking", 20),
                                        "chunking", lines)]
    /\ response' = NoResponse
    /\ ended' = NoRun
    /\ UNCHANGED <<files, progressStore, artifacts, tasks, pending, nextId>>

RECURSIVE SeqsUpTo(_, _)
SeqsUpTo(S, n) ==
    IF n = 0 THEN {<<>>}
    ELSE LET shorter == SeqsUpTo(S, n - 1) IN
         shorter \cup {Append(q, x) : q \in shorter, x \in S}

\* the store a query leaves with the missing directories of its ids created
store_after_query_mkdir(store, file_ids) ==
    [d \in DOMAIN store |->
        IF (\E i \in 1..Len(file_ids) : file_ids[i] = d) /\ ~store[d].exists
        THEN [store[d] EXCEPT !.root = TRUE, !.exists = TRUE] ELSE store[d]]
\* the artifact store after a query: the queries only test and read paths
store_after_query(store, file_ids) == store

\* a query_graph call over the directories dirs
QueryGraphOver(dirs, mode, file_ids) ==
    /\ \E outcome \in EngineOutcomes :
         result' = [op |-> "query_graph", dirs |-> dirs, mode |-> mode, file_ids |-> file_ids,
                    outcome |-> outcome,
                    out |-> query_graph(mode, dirs, file_ids, outcome)]
    /\ response' = NoResponse
    /\ ended' = NoRun
    /\ UNCHANGED <<files, progressStore, tasks, pending, nextId>>

\* a get_graph_data call over the directories dirs
GetGraphDataOver(dirs, file_ids) ==
    /\ result' = [op |-> "get_graph_data", dirs |-> dirs, file_ids |-> file_ids,
                  out |-> get_graph_data(dirs, file_ids)]
    /\ response' = NoResponse
    /\ ended' = NoRun
    /\ UNCHANGED <<files, progressStore, tasks, pending, nextId>>

\* query_graph while the program runs: it reads output_dir/<id>/output/artifacts
QueryGraph(mode, file_ids) ==
    /\ QueryGraphOver(artifacts, mode, file_ids)
    /\ artifacts' = store_after_query(artifacts, file_ids)

\* get_graph_data while the program runs
GetGraphData(file_ids) ==
    /\ GetGraphDataOver(graph_data_dirs, file_ids)
    /\ artifacts' = store_after_query(artifacts, file_ids)

\* a call of the status endpoint
GetIndexingStatus(file_id) ==
    /\ result' = [op |-> "get_indexing_status", file_id |-> file_id,
                  out |-> indexing_status_endpoint(files, progressStore, file_id)]
    /\ response' = NoResponse
    /\ ended' = NoRun
    /\ UNCHANGED <<files, progressStore, artifacts, tasks, pending, nextId>>

\* the status file of a document is damaged (disk, another program)
CorruptProgress(file_id) ==
    /\ file_id \in DOMAIN progressStore
    /\ progressStore[file_id] # Corrupt
    /\ progressStore' = [progressStore EXCEPT ![file_id] = Corrupt]
    /\ response' = NoResponse
    /\ ended' = NoRun
    /\ result' = NoResult
    /\ UNCHANGED <<files, artifacts, tasks, pending, nextId>>

\* ----------------------------------------------------------- faults
\* An exception of the environment (disk, permissions, spawn) at a point of
\* _run_indexing_pipeline.
OUTPUT_DIR_ERROR == "output directory error"
CONFIG_ERROR == "config error"
INPUT_ERROR == "input error"
SPAWN_ERROR == "spawn error"
REGISTRY_ERROR == "registry error"

\* line 239: mkdir of the output directory fails, before the try block
PrepareFault(t) ==
    /\ tasks[t].pc = "created"
    /\ tasks' = SetTask(t, [Finished(tasks[t]) EXCEPT !.pc = "crashed"])
    /\ ended' = RunEnd("crashed", t, [tasks[t] EXCEPT !.exc = OUTPUT_DIR_ERROR])
    /\ result' = NoResult
    /\ response' = NoResponse
    /\ UNCHANGED <<files, progressStore, artifacts, pending, nextId>>

\* line 245: _create_config_file raises
ConfigFault(t) ==
    /\ tasks[t].pc = "config"
    /\ tasks' = Raise(t, CONFIG_ERROR)
    /\ response' = NoResponse
    /\ ended' = NoRun
    /\ result' = NoResult
    /\ UNCHANGED <<files, progressStore, artifacts, pending, nextId>>

\* lines 250-262: the input directory, extract_text_content or the write raises
CopyFault(t) ==
    /\ tasks[t].pc = "copy"
    /\ tasks' = Raise(t, INPUT_ERROR)
    /\ response' = NoResponse
    /\ ended' = NoRun
    /\ result' = NoResult
    /\ UNCHANGED <<files, progressStore, artifacts, pending, nextId>>

\* lines 265-278: "chunking" is saved, then create_subprocess_exec raises
SpawnFault(t) ==
    /\ tasks[t].pc = "copy"
    /\ LET p == update_progress(tasks[t].progress, "chunking", 20) IN
       /\ progressStore' = save_progress(progressStore, p)
       /\ tasks' = SetTask(t, [tasks[t] EXCEPT !.progress = p,
                                  !.exc = SPAWN_ERROR, !.pc = "except"])
    /\ response' = NoResponse
    /\ ended' = NoRun
    /\ result' = NoResult
    /\ UNCHANGED <<files, artifacts, pending, nextId>>

\* lines 298-303: update_file_status raises while marking the document completed
FinalizeFault(t) ==
    /\ tasks[t].pc = "mark_completed"
    /\ tasks' = Raise(t, REGISTRY_ERROR)
    /\ response' = NoResponse
    /\ ended' = NoRun
    /\ result' = NoResult
    /\ UNCHANGED <<files, progressStore, artifacts, pending, nextId>>

START_ERROR == "start error"

\* lines 218-225: the reset is written, then start_indexing raises
retry_indexing_fault(call) ==
    /\ call \in pending
    /\ call.op = "retry"
    /\ files' = update_file_status(files, call.file_id, "indexing", retry_reset_kwargs)
    /\ pending' = (pending \ {call}) \cup {Call("retry_failed", call.file_id)}
    /\ response' = NoResponse
    /\ ended' = NoRun
    /\ result' = NoResult
    /\ UNCHANGED <<progressStore, artifacts, tasks, nextId>>

\* lines 234-242: the except clause of retry_indexing
retry_indexing_except(call) ==
    /\ call \in pending
    /\ call.op = "retry_failed"
    /\ files' = update_file_status(files, call.file_id, "error",
                    [error_message |-> START_ERROR])
    /\ pending' = pending \ {call}
    /\ response' = Response("retry", call.file_id, 500)
    /\ ended' = NoRun
    /\ result' = NoResult
    /\ UNCHANGED <<progressStore, artifacts, tasks, nextId>>

\* ------------------------------------------------------ specifications
\* The program's steps.  A cancel or retry call that its gate rejects changes
\* nothing of the program's state: Next leaves these calls out, NextApi has them.
Next ==
    \/ upload_file
    \/ \E t \in Tasks : start_indexing_background(t)
    \/ \E t \in Tasks : PipelinePrepare(t)
    \/ \E t \in Tasks : PipelineCopy(t)
    \/ \E t \in Tasks : PipelineChunk(t)
    \/ \E t \in Tasks : MonitorLine(t)
    \/ \E t \in Tasks : ChildWritesArtifacts(t)
    \/ \E t \in Tasks : MonitorExitFailure(t)
    \/ \E t \in Tasks : MonitorExitSuccess(t)
    \/ \E t \in Tasks : PipelineMarkCompleted(t)
    \/ \E t \in Tasks : PipelineExcept(t)
    \/ \E d \in Docs : cancel_indexing(d) /\ Admitted(Call("cancel", d))
    \/ \E c \in pending : cancel_indexing_write(c)
    \/ \E d \in Docs : retry_indexing(d) /\ Admitted(Call("retry", d))
    \/ \E c \in pending : retry_indexing_write(c)
    \/ \E d \in Docs : reindex_file(d)
    \/ \E d \in Docs : delete_file(d)

Spec == Init /\ [][Next]_vars

\* every cancel and retry call, the rejected ones with their responses
NextApi ==
    \/ Next
    \/ \E d \in Docs \cup {UnknownId} : cancel_indexing(d)
    \/ \E d \in Docs \cup {UnknownId} : retry_indexing(d)

SpecApi == Init /\ [][NextApi]_vars

\* the program's steps in an environment whose operations may raise
NextFaults ==
    \/ Next
    \/ \E t \in Tasks : PrepareFault(t)
    \/ \E t \in Tasks : ConfigFault(t)
    \/ \E t \in Tasks : CopyFault(t)
    \/ \E t \in Tasks : SpawnFault(t)
    \/ \E t \in Tasks : FinalizeFault(t)
    \/ \E c \in pending : retry_indexing_fault(c)
    \/ \E c \in pending : retry_indexing_except(c)

SpecFaults == Init /\ [][NextFaults]_vars

\* ------------------------------------------- the registry file, step by step
\* FileService keeps every Document in one file; upload (_save_metadata),
\* update_file_status and delete_file each load the whole file, change the
\* dictionary and write the whole file back, the load and the write being
\* awaits at which other coroutines run
RegistryDocs == 1..MaxRegistryDocs
RegistryStatuses == {"indexing", "completed"}

RegistryCall(op, file_id, status, loaded) ==
    [op |-> op, file_id |-> file_id, status |-> status, loaded |-> loaded]

\* the dictionary an operation writes back, from the one it loaded
registry_write(call) ==
    CASE call.op = "upload" -> save_metadata(call.loaded, call.file_id, NewFileMetadata)
      [] call.op = "update" -> update_file_status(call.loaded, call.file_id, call.status, <<>>)
      [] call.op = "delete" -> delete_metadata(call.loaded, call.file_id)

\* lines 333, 212, 184: the operation loads the registry; update_file_status
\* and delete_file on an id the loaded dictionary lacks end without writing
RegistryLoad(op, file_id, status) ==
    /\ Cardinality(pending) < MaxInFlight
    /\ \A c \in pending : c.file_id # file_id
    /\ IF op = "upload"
       THEN /\ file_id = nextId
            /\ nextId <= MaxRegistryDocs
            /\ nextId' = nextId + 1
       ELSE UNCHANGED nextId
    /\ IF op # "upload" /\ file_id \notin DOMAIN files
       THEN UNCHANGED pending
       ELSE pending' = pending \cup {RegistryCall(op, file_id, status, files)}
    /\ response' = NoResponse
    /\ ended' = NoRun
    /\ result' = NoResult
    /\ UNCHANGED <<files, progressStore, artifacts, tasks>>

\* lines 335, 221, 187: _save_metadata_dict writes the changed dictionary
RegistrySave(call) ==
    /\ call \in pending
    /\ files' = registry_write(call)
    /\ pending' = pending \ {call}
    /\ response' = NoResponse
    /\ ended' = NoRun
    /\ result' = NoResult
    /\ UNCHANGED <<progressStore, artifacts, tasks, nextId>>

NextRegistry ==
    \/ \E d \in RegistryDocs : RegistryLoad("upload", d, "uploaded")
    \/ \E d \in RegistryDocs, st \in RegistryStatuses : RegistryLoad("update", d, st)
    \/ \E d \in RegistryDocs : RegistryLoad("delete", d, None)
    \/ \E c \in pending : RegistrySave(c)

SpecRegistry == Init /\ [][NextRegistry]_vars

\* the program with the child process closing its stream and exiting as steps
\* of their own, and the monitor returning when its loop and wait() allow
NextLive ==
    \/ upload_file
    \/ \E t \in Tasks : start_indexing_background(t)
    \/ \E t \in Tasks : PipelinePrepare(t)
    \/ \E t \in Tasks : PipelineCopy(t)
    \/ \E t \in Tasks : PipelineChunk(t)
    \/ \E t \in Tasks : MonitorLine(t)
    \/ \E t \in Tasks : ChildWritesArtifacts(t)
    \/ \E t \in Tasks : ChildClosesStream(t)
    \/ \E t \in Tasks : ChildExits(t)
    \/ \E t \in Tasks : MonitorReturn(t)
    \/ \E t \in Tasks : PipelineMarkCompleted(t)
    \/ \E t \in Tasks : FinalizeFault(t)
    \/ \E t \in Tasks : PipelineExcept(t)
    \/ \E d \in Docs : reindex_file(d)
    \/ \E d \in Docs : delete_file(d)

\* a step of the coroutine of task t: the event loop resumes a coroutine whose
\* await has completed
PipelineStep(t) ==
    /\ t \in Tasks
    /\ \/ start_indexing_background(t)
       \/ PipelinePrepare(t)
       \/ PipelineCopy(t)
       \/ PipelineChunk(t)
       \/ MonitorReturn(t)
       \/ PipelineMarkCompleted(t)
       \/ FinalizeFault(t)
       \/ PipelineExcept(t)

\* the coroutines are scheduled fairly; every child process closes its output
\* stream and exits
Fairness ==
    \A t \in 1..MaxTasks :
        /\ WF_vars(PipelineStep(t))
        /\ WF_vars(t \in Tasks /\ ChildClosesStream(t))
        /\ WF_vars(t \in Tasks /\ ChildExits(t))

SpecLive == Init /\ [][NextLive]_vars /\ Fairness

\* the program's steps and the queries, each over one document (SpecFunctions
\* has the queries over every id list)
QueryLists == { <<d>> : d \in Docs }
NextQuery ==
    \/ Next
    \/ \E mode \in ChatModes, file_ids \in QueryLists : QueryGraph(mode, file_ids)
    \/ \E file_ids \in QueryLists : GetGraphData(file_ids)

SpecQuery == Init /\ [][NextQuery]_vars

\* the program's steps, the status endpoint, and status files that get damaged
NextStatus ==
    \/ Next
    \/ \E d \in Docs \cup {UnknownId} : GetIndexingStatus(d)
    \/ \E d \in Docs : CorruptProgress(d)

SpecStatus == Init /\ [][NextStatus]_vars

\* the queries as functions of the directories they read and of the id list
QueryDocs == 1..MaxQueryDocs
NextFunctions ==
    /\ result = NoResult
    /\ \/ \E dirs \in [QueryDocs -> QueryDirSamples],
             file_ids \in SeqsUpTo(QueryDocs \cup {UnknownId}, MaxQueryIds) :
              \/ GetGraphDataOver(dirs, file_ids) /\ UNCHANGED artifacts
              \/ \E mode \in ChatModes : QueryGraphOver(dirs, mode, file_ids) /\ UNCHANGED artifacts
       \/ \E context_data \in { d \in ContextDicts(MaxContextEntries) : DistinctKeys(d) } :
              ExtractSources(context_data)
       \/ \E previous \in ProgressSamples \cup {NoProgress}, written \in ProgressSamples :
              SaveThenRead(previous, written)
       \/ \E endpoint \in {"chat_query", "chat_stream"}, fs \in ChatRegistries,
             dirs \in ChatDirs, mode \in ChatModes,
             file_ids \in SeqsUpTo(QueryDocs \cup {UnknownId}, MaxQueryIds) :
              ChatRequest(endpoint, fs, dirs, mode, file_ids)
       \/ \E lines \in SeqsUpTo(LineTexts, MaxLines) : MonitorLines(lines)

SpecFunctions == Init /\ [][NextFunctions]_vars

TypeOK ==
    /\ DOMAIN files \subseteq Docs
    /\ DOMAIN progressStore \subseteq Docs
    /\ Len(tasks) <= MaxTasks
    /\ \A c \in pending : c.op \in {"cancel", "retry", "retry_failed"} /\ c.file_id \in Docs

\* ================================================================ claims
Started(t) == tasks[t].pc \in PipelinePcs \ {"created"}
Populated(meta) ==
    \/ meta.chunks_count # NoCount
    \/ meta.entities_count # NoCount
    \/ meta.relationships_count # NoCount
    \/ meta.communities_count # NoCount

\* C1: a cancel call passes its gate only from status indexing, a retry call only
\* from error or cancelled; a 200 response goes only to a call that passed its
\* gate; a call answered 400 or 404 (unknown id included) leaves the registry,
\* the progress records, the artifacts, the tasks and the pending calls unchanged.
C1_Step ==
    /\ \A d \in Docs \cup {UnknownId} :
         /\ Admitted(Call("cancel", d)) =>
              d \in DOMAIN files /\ files[d].status = "indexing"
         /\ Admitted(Call("retry", d)) =>
              d \in DOMAIN files /\ files[d].status \in {"error", "cancelled"}
    /\ response' # NoResponse /\ response'.code = 200 =>
         Call(response'.op, response'.file_id) \in pending
    /\ response' # NoResponse /\ response'.code # 200 =>
         /\ response'.code \in {400, 404}
         /\ response'.code = 404 <=> response'.file_id \notin DOMAIN files
         /\ UNCHANGED <<files, progressStore, artifacts, tasks, pending>>
C1_GateAndRejection == [][C1_Step]_vars

\* C1 witness: a retry call on a completed document was just answered 400
C1_Witness ==
    /\ response = Response("retry", 1, 400)
    /\ 1 \in DOMAIN files
    /\ files[1].status = "completed"

\* C2: once a document's status is cancelled, the only change a step makes to it
\* is the move to indexing of a retry or reindex call (or of the background start
\* such a call scheduled): no step of a pipeline moves it to completed or error.
C2_Step ==
    \A d \in DOMAIN files :
        (files[d].status = "cancelled" /\ d \in DOMAIN files')
        => files'[d].status \in {"cancelled", "indexing"}
C2_CancelledIsTerminal == [][C2_Step]_vars

\* C3: never two started pipeline coroutines for the same document id
C3_OnePipelinePerDocument ==
    \A t1, t2 \in Tasks :
        (t1 # t2 /\ Started(t1) /\ Started(t2))
        => tasks[t1].file_id # tasks[t2].file_id

\* C4: within one run (same started_at), while the persisted status is indexing,
\* the persisted progress_percentage never decreases.
C4_Step ==
    \A d \in DOMAIN progressStore :
        (/\ progressStore[d].status = "indexing"
         /\ progressStore'[d].status = "indexing"
         /\ progressStore'[d].started_at = progressStore[d].started_at)
        => progressStore'[d].progress_percentage >= progressStore[d].progress_percentage
C4_PercentageNonDecreasing == [][C4_Step]_vars

\* C5: when a progress record exists and no status write for the document is
\* under way (no admitted call waiting to write, no coroutine between its
\* decision and its write), the record's status is the Document's status.
StatusWriteInProgress(d) ==
    \/ \E c \in pending : c.file_id = d
    \/ \E t \in Tasks : tasks[t].file_id = d
                        /\ tasks[t].pc \in {"background", "created", "mark_completed", "except"}
C5_ProgressMirrorsDocument ==
    \A d \in DOMAIN files \cap DOMAIN progressStore :
        ~StatusWriteInProgress(d) => progressStore[d].status = files[d].status

\* C6: a Document with a populated count has status completed
C6_CountsOnlyWhenCompleted ==
    \A d \in DOMAIN files : Populated(files[d]) => files[d].status = "completed"

\* C7: a run whose child exited with a non-zero code ends with progress status
\* error and Document status error, both with the stderr text in error_message,
\* and without the finalizing step (step, percentage, completed_at).
C7_NonZeroExit ==
    (ended.kind = "done" /\ ended.return_code \notin {0, NoCode}) =>
        LET d == ended.file_id
            text == IF ended.stderr = "" THEN "Unknown error" ELSE ended.stderr
            message == "GraphRAG indexing failed: " \o text
        IN /\ d \in DOMAIN progressStore
           /\ progressStore[d].status = "error"
           /\ progressStore[d].error_message = message
           /\ progressStore[d].current_step # "finalizing"
           /\ progressStore[d].progress_percentage < 95
           /\ progressStore[d].completed_at = NoTime
           /\ d \in DOMAIN files =>
                files[d].status = "error" /\ files[d].error_message = message

\* C7 witness: a run just ended after its child failed with stderr "boom"
C7_Witness ==
    /\ ended.kind = "done" /\ ended.return_code = 1 /\ ended.stderr = "boom"
    /\ ended.file_id \in DOMAIN files

\* C8: a run whose child exited with code 0 and that found the artifact directory
\* ends with the progress record completed, 100, completed_at set, and the
\* Document completed with the row counts of the tables the run read.
C8_SuccessfulRun ==
    (ended.kind = "done" /\ ended.return_code = 0 /\ ended.seen.exists) =>
        LET d == ended.file_id IN
        /\ d \in DOMAIN progressStore
        /\ progressStore[d].status = "completed"
        /\ progressStore[d].progress_percentage = 100
        /\ progressStore[d].completed_at # NoTime
        /\ d \in DOMAIN files =>
             /\ files[d].status = "completed"
             /\ files[d].chunks_count = RowCount(ended.seen.text_units)
             /\ files[d].entities_count = RowCount(ended.seen.entities)
             /\ files[d].relationships_count = RowCount(ended.seen.relationships)
             /\ files[d].communities_count = RowCount(ended.seen.communities)

\* C8 witness: a run just ended with code 0 and artifacts, its document in the registry
C8_Witness ==
    /\ ended.kind = "done" /\ ended.return_code = 0 /\ ended.seen.exists
    /\ ended.file_id \in DOMAIN files
    /\ files[ended.file_id].entities_count = 2
    /\ files[ended.file_id].chunks_count = 3

\* C9: a run whose child exited with code 0 and that found no artifact directory
\* ends in error with the no-artifacts message in both records, not completed.
C9_NoArtifacts ==
    (ended.kind = "done" /\ ended.return_code = 0 /\ ~ended.seen.exists) =>
        LET d == ended.file_id IN
        /\ d \in DOMAIN progressStore
        /\ progressStore[d].status = "error"
        /\ progressStore[d].error_message = "Indexing completed but no artifacts found"
        /\ d \in DOMAIN files =>
             /\ files[d].status = "error"
             /\ files[d].error_message = "Indexing completed but no artifacts found"

\* C9 witness: a run just ended with code 0 and no artifact directory
C9_Witness ==
    /\ ended.kind = "done" /\ ended.return_code = 0 /\ ~ended.seen.exists
    /\ ended.file_id \in DOMAIN files

\* C10: whatever point of the pipeline task raised, when the task has ended the
\* failure is recorded as status error with the exception's message in the
\* progress record and in the Document record.
C10_FailureRecordedInBoth ==
    (ended.kind # "none" /\ ended.exc # None) =>
        LET d == ended.file_id IN
        /\ d \in DOMAIN progressStore
        /\ progressStore[d].status = "error"
        /\ progressStore[d].error_message = ended.exc
        /\ d \in DOMAIN files =>
             files[d].status = "error" /\ files[d].error_message = ended.exc

\* C11: when an accepted retry returns 200, the Document (if still registered)
\* has status indexing and no error_message, and the pipeline coroutine that
\* start_indexing scheduled has not taken a step; when start_indexing raised
\* and retry returns 500, the Document has status error with the exception's
\* message.
C11_RetryResetsThenStarts ==
    \A d \in DOMAIN files :
        /\ response = Response("retry", d, 200) =>
             /\ files[d].status = "indexing"
             /\ files[d].error_message = None
             /\ tasks[Len(tasks)] = NewTask(d, "created", Len(tasks))
        /\ response = Response("retry", d, 500) =>
             /\ files[d].status = "error"
             /\ files[d].error_message = START_ERROR

\* C11 witness: retry just returned 200 for a registered document
C11_Witness ==
    /\ response = Response("retry", 1, 200)
    /\ 1 \in DOMAIN files
    /\ files[1].status = "indexing"

\* the failing start of C11 happens: retry just returned 500
C11_FailedStartReached ==
    /\ response = Response("retry", 1, 500)
    /\ 1 \in DOMAIN files

\* C12: a step that writes cancelled to a Document (the write of an accepted
\* cancel call) finds the stored status indexing immediately before the write.
C12_Step ==
    \A d \in DOMAIN files :
        response' = Response("cancel", d, 200) => files[d].status = "indexing"
C12_CancelWritesOnlyOverIndexing == [][C12_Step]_vars

\* C13: the step in which start_indexing is called (the background start of
\* an upload or reindex, or the write of a retry) leaves the pipeline coroutine
\* it scheduled at its start, no step taken, and the record start_indexing
\* returns has status indexing, current_step preparing, percentage 0 and
\* started_at set.
StartIndexingCalled(t) ==
    /\ t \in 1..Len(tasks')
    /\ t \notin Tasks \/ tasks[t].pc = "background"
    /\ tasks'[t].pc \notin {"background", "bg_failed"}
C13_Step ==
    \A t \in 1..MaxTasks :
        StartIndexingCalled(t) =>
            /\ tasks'[t].pc = "created"
            /\ tasks'[t].progress.status = "indexing"
            /\ tasks'[t].progress.current_step = "preparing"
            /\ tasks'[t].progress.progress_percentage = 0
            /\ tasks'[t].progress.started_at # NoTime
            /\ tasks'[t].progress.completed_at = NoTime
            /\ tasks'[t].progress.error_message = None
C13_StartIndexingReturnsInitialRecord == [][C13_Step]_vars

\* C13 witness: start_indexing has returned to retry_indexing, the coroutine it
\* scheduled has not run yet
C13_Witness ==
    /\ response = Response("retry", 1, 200)
    /\ Len(tasks) = 2
    /\ tasks[2].pc = "created"
    /\ tasks[2].progress.started_at = 2

\* C14: once start_indexing has returned for a run (its coroutine is scheduled
\* and has not taken a step yet), get_indexing_status of the document reports
\* that run's record: not a missing record, status indexing, started_at of
\* the new run.
C14_RecordCreatedAtStart ==
    \A t \in Tasks :
        tasks[t].pc = "created" =>
            LET record == get_indexing_status(progressStore, tasks[t].file_id) IN
            /\ record # NoProgress
            /\ record.status = "indexing"
            /\ record.started_at = tasks[t].progress.started_at

\* C15: within one run (same started_at) the persisted current_step never
\* moves to a step that is earlier in the order preparing, copying_file,
\* chunking, entity_extraction, relationship_extraction, community_detection,
\* finalizing.
StepOrder ==
    [preparing |-> 1, copying_file |-> 2, chunking |-> 3, entity_extraction |-> 4,
     relationship_extraction |-> 5, community_detection |-> 6, finalizing |-> 7]
C15_Step ==
    \A d \in DOMAIN progressStore :
        progressStore'[d].started_at = progressStore[d].started_at
        => StepOrder[progressStore'[d].current_step] >= StepOrder[progressStore[d].current_step]
C15_StepOnlyMovesForward == [][C15_Step]_vars

\* C16 as stated: every persisted (current_step, progress_percentage) pair is one
\* of preparing:5, copying_file:10, chunking:20, entity_extraction:60,
\* relationship_extraction:80, community_detection:90, finalizing:95, or has
\* percentage 100 in a completed record.
PresetCheckpoints ==
    { <<"preparing", 5>>, <<"copying_file", 10>>, <<"chunking", 20>>,
      <<"entity_extraction", 60>>, <<"relationship_extraction", 80>>,
      <<"community_detection", 90>>, <<"finalizing", 95>> }
Checkpoint(record) == <<record.current_step, record.progress_percentage>>
C16_PresetCheckpointsOnly ==
    \A d \in DOMAIN progressStore :
        \/ Checkpoint(progressStore[d]) \in PresetCheckpoints
        \/ progressStore[d].progress_percentage = 100 /\ progressStore[d].status = "completed"

\* C16 amended: the same, with the pair chunking:30 that the monitor persists
\* for a log line read before any keyword line.
C16_CheckpointsWithMonitorChunking ==
    \A d \in DOMAIN progressStore :
        \/ Checkpoint(progressStore[d]) \in PresetCheckpoints \cup { <<"chunking", 30>> }
        \/ progressStore[d].progress_percentage = 100 /\ progressStore[d].status = "completed"

\* C16 witness: the monitor has persisted chunking:30
C16_Witness ==
    /\ 1 \in DOMAIN progressStore
    /\ Checkpoint(progressStore[1]) = <<"chunking", 30>>
    /\ \E t \in Tasks : tasks[t].pc = "monitor" /\ tasks[t].lines > 0

\* C17: a step that answers a query (query_graph in either mode, or
\* get_graph_data), taken from any state of the running program, leaves the
\* Document registry, the progress records and the artifact store unchanged.
C17_Step == result' # NoResult => UNCHANGED <<files, progressStore, artifacts, tasks, pending>>
C17_QueriesAreReadOnly == [][C17_Step]_vars

\* C17 witness: a local query was answered from the artifacts of a document
\* whose pipeline is still in its monitor loop
C17_Witness ==
    /\ result # NoResult
    /\ result.op = "query_graph"
    /\ result.out.kind = "returned"
    /\ result.out.engine = <<1>>
    /\ \E t \in Tasks : tasks[t].file_id = 1 /\ tasks[t].pc = "monitor"

\* C18: a document that was deleted (its id was handed out and is no longer
\* in the registry) is not re-created, and once no task of the document is in
\* flight it has no directory in the artifact store: neither output_dir/<id>
\* nor artifacts below it.
InFlight(d) ==
    \E t \in Tasks : tasks[t].file_id = d /\ tasks[t].pc \in PipelinePcs \cup {"background"}
C18_DeletedLeavesNothing ==
    \A d \in Docs :
        (d < nextId /\ d \notin DOMAIN files /\ ~InFlight(d)) =>
            ~artifacts[d].root /\ ~artifacts[d].exists

\* C19: get_graph_data returns (it has no path that raises on a missing
\* directory) what it returns for the ids whose directory exists alone: an id
\* without a directory contributes no entity, relationship, community or chunk,
\* and the numbers of rows returned are the sums over the existing directories.
RECURSIVE TotalRows(_, _, _)
TotalRows(dirs, file_ids, kind) ==
    IF file_ids = <<>> THEN 0
    ELSE (IF Head(file_ids) \in DOMAIN dirs /\ dirs[Head(file_ids)].exists
          THEN RowCount(dirs[Head(file_ids)][kind]) ELSE 0)
         + TotalRows(dirs, Tail(file_ids), kind)
HasDirectory(dirs, file_id) == file_id \in DOMAIN dirs /\ dirs[file_id].exists
C19_MissingDirectoryContributesNothing ==
    (result # NoResult /\ result.op = "get_graph_data") =>
        LET dirs == result.dirs
            present == SelectSeq(result.file_ids, LAMBDA id : HasDirectory(dirs, id))
        IN /\ result.out = get_graph_data(dirs, present)
           /\ Len(result.out.entities) = TotalRows(dirs, result.file_ids, "entities")
           /\ Len(result.out.relationships) = TotalRows(dirs, result.file_ids, "relationships")
           /\ Len(result.out.communities) = TotalRows(dirs, result.file_ids, "communities")
           /\ Len(result.out.chunks) = TotalRows(dirs, result.file_ids, "text_units")
           /\ present = <<>> =>
                result.out = [entities |-> <<>>, relationships |-> <<>>,
                              communities |-> <<>>, chunks |-> <<>>]

\* C19 witness: a list whose first id has no directory and whose second id has
\* one with two entities
C19_Witness ==
    /\ result # NoResult
    /\ result.op = "get_graph_data"
    /\ result.file_ids = <<1, 2>>
    /\ ~result.dirs[1].exists
    /\ result.dirs[2].exists
    /\ result.out.entities = <<1, 2>>

\* C20: a local query over ids none of which has a directory with an entities
\* table makes query_graph return (not raise) the fixed no-data response with
\* no sources, the engine not called.
C20_LocalSearchWithoutEntities ==
    (/\ result # NoResult
     /\ result.op = "query_graph"
     /\ result.mode = "local"
     /\ \A i \in 1..Len(result.file_ids) :
            ~(HasDirectory(result.dirs, result.file_ids[i])
              /\ result.dirs[result.file_ids[i]].entities # Absent))
    => /\ result.out.kind = "returned"
       /\ result.out.response = "No indexed data found for the specified files."
       /\ result.out.sources = <<>>
       /\ result.out.mode = "local"
       /\ result.out.engine = <<>>

\* C20 witness: a local query over a document whose artifact directory exists
\* without an entities table, answered with the fixed response
C20_Witness ==
    /\ result # NoResult
    /\ result.op = "query_graph"
    /\ result.mode = "local"
    /\ result.file_ids = <<1>>
    /\ result.dirs[1].exists
    /\ result.dirs[1].entities = Absent
    /\ result.out.kind = "returned"
    /\ result.out.response = NO_INDEXED_DATA

\* C21: a global query over ids none of which has a community reports table
\* returns the fixed no-community-data response with no sources and does not
\* call the engine; otherwise the engine is called on the report tables of all
\* the listed ids that have one, in list order.
HasReports(dirs, file_id) ==
    HasDirectory(dirs, file_id) /\ dirs[file_id].community_reports # Absent
C21_GlobalSearchNeedsReports ==
    (result # NoResult /\ result.op = "query_graph" /\ result.mode = "global") =>
        LET found == SelectSeq(result.file_ids, LAMBDA id : HasReports(result.dirs, id)) IN
        /\ result.out.engine = found
        /\ found = <<>> =>
             /\ result.out.kind = "returned"
             /\ result.out.response = "No community data found for global search."
             /\ result.out.sources = <<>>

\* C21 witness: a global query over a document whose directory has communities
\* but no community reports, answered with the fixed response
C21_Witness ==
    /\ result # NoResult
    /\ result.op = "query_graph"
    /\ result.mode = "global"
    /\ result.file_ids = <<1>>
    /\ result.dirs[1].exists
    /\ result.dirs[1].communities # Absent
    /\ result.out.kind = "returned"
    /\ result.out.response = NO_COMMUNITY_DATA

\* the other case of C21 happens: the engine was called on two report tables
C21_EngineOnAllReports ==
    /\ result # NoResult
    /\ result.op = "query_graph"
    /\ result.mode = "global"
    /\ result.out.engine = <<1, 2>>

\* C22: query_graph runs the local search for mode local and the global search
\* for the other mode; when the search called the engine and the engine raised,
\* query_graph raises "Error querying graph: " followed by the engine's
\* message; otherwise it returns a result whose mode is the requested mode.
C22_DispatchAndWrap ==
    (result # NoResult /\ result.op = "query_graph") =>
        /\ result.out.search = (IF result.mode = "local" THEN "local" ELSE "global")
        /\ IF result.out.engine # <<>> /\ result.outcome.raised
           THEN /\ result.out.kind = "raised"
                /\ result.out.message = "Error querying graph: " \o result.outcome.response
           ELSE /\ result.out.kind = "returned"
                /\ result.out.mode = result.mode

\* C22 witness: the engine of a global query raised and query_graph raised
C22_Witness ==
    /\ result # NoResult
    /\ result.op = "query_graph"
    /\ result.mode = "global"
    /\ result.outcome.raised
    /\ result.out.engine # <<>>
    /\ result.out.kind = "raised"

\* C23: the extracted sources are the entries of context_data whose key, in
\* lower case, contains "source" or "chunk", in the dictionary's order, each
\* with its key as type and as content the value itself when it has at most
\* 200 characters, else its first 200 characters followed by "..."; no content
\* has more than 203 characters.
C23_ExtractedSources ==
    (result # NoResult /\ result.op = "extract_sources") =>
        LET kept == SelectSeq(result.context_data,
                        LAMBDA item : \/ contains(lower(item.key), <<"s", "o", "u", "r", "c", "e">>)
                                      \/ contains(lower(item.key), <<"c", "h", "u", "n", "k">>))
        IN /\ Len(result.out) = Len(kept)
           /\ \A i \in 1..Len(kept) :
                /\ result.out[i].type = kept[i].key
                /\ Len(result.out[i].content) <= 203
                /\ Len(kept[i].value) <= 200 => result.out[i].content = kept[i].value
                /\ Len(kept[i].value) > 200 =>
                     result.out[i].content = SubSeq(kept[i].value, 1, 200) \o <<".", ".", ".">>

\* C23 witness: a dictionary with a key "Sources" whose value has 201 characters
\* and a key "reports": one source, its content 203 characters long
C23_Witness ==
    /\ result # NoResult
    /\ result.op = "extract_sources"
    /\ Len(result.context_data) = 2
    /\ result.context_data[1].key = <<"S", "o", "u", "r", "c", "e", "s">>
    /\ Len(result.context_data[1].value) = 201
    /\ result.context_data[2].key = <<"r", "e", "p", "o", "r", "t", "s">>
    /\ Len(result.out) = 1
    /\ Len(result.out[1].content) = 203

\* C24: when the status file of a registered document is corrupt,
\* get_indexing_status returns None as for a missing file (it does not raise),
\* and the status endpoint answers with the synthetic record derived from the
\* Document.
C24_CorruptRecordIsAbsent ==
    \A d \in DOMAIN progressStore :
        progressStore[d] = Corrupt =>
            /\ get_indexing_status(progressStore, d) = NoProgress
            /\ (result # NoResult /\ result.op = "get_indexing_status"
                /\ result.file_id = d /\ d \in DOMAIN files) =>
                 /\ result.out.code = 200
                 /\ result.out.progress.current_step \in {"waiting", "finished", "failed", "unknown"}
                 /\ result.out.progress.status \in {files[d].status, "unknown"}
                 /\ result.out = indexing_status_endpoint(files,
                        [x \in DOMAIN progressStore \ {d} |-> progressStore[x]], d)

\* C24 witness: the status endpoint answered for a completed document whose
\* status file is corrupt
C24_Witness ==
    /\ 1 \in DOMAIN progressStore
    /\ progressStore[1] = Corrupt
    /\ 1 \in DOMAIN files
    /\ files[1].status = "completed"
    /\ result # NoResult
    /\ result.op = "get_indexing_status"
    /\ result.out.progress.current_step = "finished"

\* C25: when there is no (readable) progress record the status endpoint
\* answers by the Document status alone: uploaded gives (uploaded, waiting, 0),
\* completed (completed, finished, 100, completed_at set), error (error,
\* failed, 0, the Document's error_message), any other status (unknown,
\* unknown, 0); an unknown id is answered 404.
C25_SyntheticProgress ==
    (result # NoResult /\ result.op = "get_indexing_status") =>
        LET d == result.file_id
            p == result.out.progress
        IN IF d \notin DOMAIN files THEN result.out.code = 404
           ELSE (d \notin DOMAIN progressStore \/ progressStore[d] = Corrupt) =>
                /\ result.out.code = 200
                /\ p.file_id = d
                /\ p.started_at = NoTime
                /\ files[d].status = "uploaded" =>
                     /\ <<p.status, p.current_step, p.progress_percentage>> = <<"uploaded", "waiting", 0>>
                     /\ p.error_message = None /\ p.completed_at = NoTime
                /\ files[d].status = "completed" =>
                     /\ <<p.status, p.current_step, p.progress_percentage>> = <<"completed", "finished", 100>>
                     /\ p.error_message = None /\ p.completed_at # NoTime
                /\ files[d].status = "error" =>
                     /\ <<p.status, p.current_step, p.progress_percentage>> = <<"error", "failed", 0>>
                     /\ p.error_message = files[d].error_message /\ p.completed_at = NoTime
                /\ files[d].status \notin {"uploaded", "completed", "error"} =>
                     /\ <<p.status, p.current_step, p.progress_percentage>> = <<"unknown", "unknown", 0>>
                     /\ p.error_message = None /\ p.completed_at = NoTime

\* C25 witness: the endpoint answered unknown for a document in status
\* indexing that has no progress record yet
C25_Witness ==
    /\ 1 \in DOMAIN files
    /\ files[1].status = "indexing"
    /\ 1 \notin DOMAIN progressStore
    /\ result # NoResult
    /\ result.op = "get_indexing_status"
    /\ result.file_id = 1
    /\ result.out.progress.status = "unknown"

C27_LocalChatNeedsCompleted ==
    (result # NoResult /\ result.op \in {"chat_query", "chat_stream"} /\ result.mode = "local") =>
        LET completed == { d \in DOMAIN result.fs : result.fs[d].status = "completed" }
            named == { result.file_ids[i] : i \in 1..Len(result.file_ids) }
        IN IF named \cap completed = {}
           THEN /\ result.out.code = 400
                /\ result.out.search = NoSearch
           ELSE /\ result.out.search # NoSearch
                /\ result.out.passed # <<>>
                /\ \A i \in 1..Len(result.out.passed) : result.out.passed[i] \in completed
                /\ result.out.passed = SelectSeq(result.file_ids, LAMBDA id : id \in completed)

\* C27 witness: a local chat_stream request naming a document still indexing
\* and a completed one: the search ran over the completed one only
C27_Witness ==
    /\ result # NoResult
    /\ result.op = "chat_stream"
    /\ result.mode = "local"
    /\ result.file_ids = <<1, 2>>
    /\ {1, 2} \subseteq DOMAIN result.fs
    /\ result.fs[1].status = "indexing"
    /\ result.fs[2].status = "completed"
    /\ result.out.passed = <<2>>
    /\ result.out.search # NoSearch

\* the rejection of C27 happens: a local request naming only a document that
\* is not completed
C27_RejectionReached ==
    /\ result # NoResult
    /\ result.op = "chat_query"
    /\ result.mode = "local"
    /\ result.file_ids = <<1>>
    /\ 1 \in DOMAIN result.fs
    /\ result.out.code = 400

GraphKinds == {"entities", "relationships", "communities", "text_units"}

\* the rows document file_id holds of one kind: none without its directory or table
RowsOf(dirs, file_id, kind) ==
    IF file_id \in DOMAIN dirs /\ dirs[file_id].exists THEN Rows(dirs[file_id][kind]) ELSE <<>>

\* the number of rows the positions before p of file_ids hold
RECURSIVE RowsBefore(_, _, _, _)
RowsBefore(dirs, file_ids, kind, p) ==
    IF p <= 1 THEN 0
    ELSE RowsBefore(dirs, file_ids, kind, p - 1) + Len(RowsOf(dirs, file_ids[p - 1], kind))

\* the list get_graph_data returned for one kind
Returned(kind) ==
    IF kind = "text_units" THEN result.out.chunks ELSE result.out[kind]

\* C28: for each of the four kinds get_graph_data returns the rows of the
\* requested ids one position after the other, in the order of the id list and
\* in row order, every position contributing all its rows even when the id or
\* the row id occurred before.
C28_GraphDataIsConcatenation ==
    (result # NoResult /\ result.op = "get_graph_data") =>
        \A kind \in GraphKinds :
            LET ids == result.file_ids
                list == Returned(kind)
            IN /\ Len(list) = RowsBefore(result.dirs, ids, kind, Len(ids) + 1)
               /\ \A p \in 1..Len(ids) :
                    LET rows == RowsOf(result.dirs, ids[p], kind)
                        offset == RowsBefore(result.dirs, ids, kind, p)
                    IN \A r \in 1..Len(rows) :
                          IF kind = "text_units"
                          THEN list[offset + r] = [id |-> rows[r], file_id |-> ids[p]]
                          ELSE list[offset + r] = rows[r]

\* C28 witness: the same id listed twice: its two entities are returned twice
C28_Witness ==
    /\ result # NoResult
    /\ result.op = "get_graph_data"
    /\ result.file_ids = <<1, 1>>
    /\ result.out.entities = <<1, 2, 1, 2>>

\* an entity id held by two documents is returned once per document
C28_SharedEntityIdReached ==
    /\ result # NoResult
    /\ result.op = "get_graph_data"
    /\ result.file_ids = <<2, 1>>
    /\ result.out.entities = <<1, 1, 2>>

\* word occurs in text whatever the case of the letters of text
Occurs(text, word) ==
    \E offset \in 0..(Len(text) - Len(word)) :
        \A i \in 1..Len(word) :
            \/ text[offset + i] = word[i]
            \/ text[offset + i] \in DOMAIN UpperCase /\ UpperCase[text[offset + i]] = word[i]

\* the step a line names by itself, None when it holds none of the keywords
NamedStep(text) ==
    IF Occurs(text, ENTITY) THEN "entity_extraction"
    ELSE IF Occurs(text, RELATIONSHIP) THEN "relationship_extraction"
    ELSE IF Occurs(text, COMMUNITY) THEN "community_detection"
    ELSE None

\* the step after the first k lines: the one named by the last line naming any
ExpectedStep(lines, k) ==
    LET naming == { j \in 1..k : NamedStep(lines[j]) # None } IN
    IF naming = {} THEN "chunking"
    ELSE NamedStep(lines[CHOOSE j \in naming : \A i \in naming : i <= j])

\* C29: every line read is followed by one save of the record; the saved step
\* is entity_extraction for a line containing "entity" in any case, else
\* relationship_extraction for "relationship", else community_detection for
\* "community", else the step before the line (chunking at first); the saved
\* percentage is 30, 60, 80 or 90 for these steps.
C29_MonitorClassifiesAndSaves ==
    (result # NoResult /\ result.op = "monitor") =>
        /\ Len(result.out) = Len(result.lines)
        /\ \A k \in 1..Len(result.lines) :
              LET step == ExpectedStep(result.lines, k) IN
              /\ result.out[k].current_step = step
              /\ result.out[k].progress_percentage =
                    (CASE step = "chunking" -> 30
                       [] step = "entity_extraction" -> 60
                       [] step = "relationship_extraction" -> 80
                       [] step = "community_detection" -> 90)
              /\ result.out[k].status = "indexing"

\* C29 witness: a line with "entity" and "relationship" in it, then a line
\* with no keyword: both saves show entity_extraction at 60
C29_Witness ==
    /\ result # NoResult
    /\ result.op = "monitor"
    /\ Len(result.lines) = 2
    /\ line_keywords(result.lines[1]) = {"entity", "relationship"}
    /\ line_keywords(result.lines[2]) = {}
    /\ result.out[2].current_step = "entity_extraction"
    /\ result.out[2].progress_percentage = 60

\* an upper-case keyword is recognised
C29_UpperCaseReached ==
    /\ result # NoResult
    /\ result.op = "monitor"
    /\ Len(result.lines) = 1
    /\ ~contains(result.lines[1], COMMUNITY)
    /\ result.out[1].current_step = "community_detection"

\* C30: a pipeline task that has started its child process, the child closing
\* its stream and exiting, ends, and the step that ends it leaves the progress
\* record of its document saved with status completed or error.
C30_MonitoredTaskTerminates ==
    \A t \in 1..MaxTasks :
        (t \in Tasks /\ tasks[t].pc = "monitor")
            ~> (/\ ended.kind = "done"
                /\ ended.run = t
                /\ tasks[t].pc = "done"
                /\ progressStore[ended.file_id].status \in {"completed", "error"})

\* C30 witness: a task whose child exited with return code 1 has ended, the
\* record of its document saved as error
C30_Witness ==
    /\ ended.kind = "done"
    /\ ended.return_code = 1
    /\ tasks[ended.run].pc = "done"
    /\ progressStore[ended.file_id].status = "error"

\* the monitor waits while the child is alive: with the stream closed and the
\* child running the task is still in the monitor
C30_WaitingReached ==
    \E t \in Tasks :
        /\ tasks[t].pc = "monitor"
        /\ ~tasks[t].stream_open
        /\ tasks[t].return_code = NoCode

\* C31: the write of an operation on one document leaves the record of every
\* other document as the registry held it: no other document's status is
\* reverted, no deleted document comes back, no new record is dropped.
C31_Step ==
    \A call \in pending :
        (pending' = pending \ {call}) =>
            \A b \in RegistryDocs \ {call.file_id} :
                /\ (b \in DOMAIN files') = (b \in DOMAIN files)
                /\ b \in DOMAIN files => files'[b] = files[b]
C31_OtherDocumentsKept == [][C31_Step]_vars

\* C32: get_graph_data over one document that completed returns as many
\* entities, relationships, communities and chunks as the counts the pipeline
\* stored in the Document record when it checked the artifacts.
C32_GraphDataMatchesCounts ==
    (/\ result # NoResult
     /\ result.op = "get_graph_data"
     /\ Len(result.file_ids) = 1
     /\ result.file_ids[1] \in DOMAIN files
     /\ files[result.file_ids[1]].status = "completed") =>
        LET meta == files[result.file_ids[1]] IN
        /\ Len(result.out.entities) = meta.entities_count
        /\ Len(result.out.relationships) = meta.relationships_count
        /\ Len(result.out.communities) = meta.communities_count
        /\ Len(result.out.chunks) = meta.chunks_count

\* C33: a Document with status completed or indexing has no error_message
\* (an error_message is stored only with status error or cancelled).
C33_ErrorMessageOnlyWithFailure ==
    \A d \in DOMAIN files :
        files[d].status \in {"completed", "indexing"} => files[d].error_message = None

\* C34: a persisted progress record has completed_at set and percentage 100
\* exactly when its status is completed; a record with status error has
\* neither, also when marking the Document completed failed.
C34_CompletedFieldsIffCompleted ==
    \A d \in DOMAIN progressStore :
        progressStore[d] # Corrupt =>
            /\ (progressStore[d].status = "completed") =
                   (progressStore[d].completed_at # NoTime /\ progressStore[d].progress_percentage = 100)
            /\ progressStore[d].status = "error" =>
                   (progressStore[d].completed_at = NoTime /\ progressStore[d].progress_percentage # 100)

\* C35: a global-mode request of chat_query or chat_stream is never rejected,
\* calls query_graph with the empty id list whatever ids it named, and is
\* answered by the fixed no-community-data response with no sources, the
\* engine not called.
C35_GlobalChatSearchesNothing ==
    (result # NoResult /\ result.op \in {"chat_query", "chat_stream"} /\ result.mode = "global") =>
        /\ result.out.code = 200
        /\ result.out.passed = <<>>
        /\ result.out.search.kind = "returned"
        /\ result.out.search.response = NO_COMMUNITY_DATA
        /\ result.out.search.sources = <<>>
        /\ result.out.search.engine = <<>>

\* C35 witness: a global request naming a completed document whose directory
\* holds community reports is answered by the fixed response
C35_Witness ==
    /\ result # NoResult
    /\ result.op = "chat_query"
    /\ result.mode = "global"
    /\ result.file_ids = <<1>>
    /\ 1 \in DOMAIN result.fs
    /\ result.fs[1].status = "completed"
    /\ result.dirs[1].community_reports # Absent
    /\ result.out.search.response = NO_COMMUNITY_DATA

\* the contents of the chunks, one after the other
RECURSIVE Contents(_)
Contents(chunks) ==
    IF chunks = <<>> THEN <<>> ELSE Head(chunks).content \o Contents(Tail(chunks))

\* C36: the stream of an accepted chat_stream request starts with one empty
\* non-final chunk, goes on with non-final chunks of 1 to 50 characters whose
\* contents put together are the response text, and ends with its only final
\* chunk, empty, carrying the sources when the search returned and the error
\* text (with no content chunk before it) when it raised; every chunk has the
\* same chunk_id.
C36_StreamShape ==
    (result # NoResult /\ result.op = "chat_stream" /\ result.out.code = 200) =>
        LET chunks == result.chunks
            n == Len(chunks)
            search == result.out.search
        IN /\ n >= 2
           /\ chunks[1].content = <<>> /\ ~chunks[1].is_final
           /\ \A i \in 1..n : chunks[i].is_final = (i = n)
           /\ \A i \in 1..n : chunks[i].chunk_id = chunks[1].chunk_id
           /\ \A i \in 2..(n - 1) : Len(chunks[i].content) \in 1..50
           /\ chunks[n].content = <<>>
           /\ IF search.kind = "returned"
              THEN /\ Contents(SubSeq(chunks, 2, n - 1)) = result.text
                   /\ Len(chunks[n].sources) = Len(search.sources)
                   /\ chunks[n].error = None
              ELSE /\ n = 2
                   /\ chunks[n].error = search.message
                   /\ chunks[n].sources = <<>>

\* C36 witness: an answer of 51 characters streamed as a chunk of 50 and one of 1
C36_Witness ==
    /\ result # NoResult
    /\ result.op = "chat_stream"
    /\ result.out.code = 200
    /\ Len(result.text) = 51
    /\ Len(result.chunks) = 4
    /\ Len(result.chunks[2].content) = 50
    /\ Len(result.chunks[3].content) = 1
    /\ result.chunks[4].is_final

\* a stream that ends with the error chunk
C36_ErrorStreamReached ==
    /\ result # NoResult
    /\ result.op = "chat_stream"
    /\ result.out.code = 200
    /\ result.out.search.kind = "raised"
    /\ Len(result.chunks) = 2

\* C37: the write of update_file_status(id, status) changes, in the registry,
\* the status of document id and nothing else: its other fields and every
\* other document's record stay as they were, and no record appears or
\* disappears; an operation that only loads (an unknown id included) writes
\* nothing.
C37_Step ==
    /\ pending \subseteq pending' => files' = files
    /\ \A call \in pending :
          (call.op = "update" /\ pending' = pending \ {call}) =>
              /\ DOMAIN files' = DOMAIN files
              /\ \A d \in DOMAIN files :
                    files'[d] = IF d = call.file_id
                                THEN [files[d] EXCEPT !.status = call.status]
                                ELSE files[d]
C37_UpdateChangesOnlyItsDocument == [][C37_Step]_vars
====
